---- MODULE Spec2Model ----
(***************************************************************************)
(* Segment catalog of the data coordinator (internal/datacoord/meta.go):   *)
(* the in-memory segment index `segments`, the persisted store behind the  *)
(* catalog, the channel-removal markers, and the compaction commit/revert  *)
(* sequence driven by a caller; and the segment replica of the data node   *)
(* (package datanode, SegmentReplica) with its four segment buckets.       *)
(***************************************************************************)
EXTENDS Integers, Sequences, FiniteSets, TLC

----------------------------------------------------------------------------
(* Bounds of the model *)

MaxOps == 3
MaxFlushOps == 3
MaxCompactOps == 4
MaxTs == 2
MaxRows == 1
MaxPaths == 3
MaxExpire == 1

(* Input domains *)

SegIDs == {1, 2}
CompactToID == 3
UnknownID == 9
Channels == {"ch1", "ch2"}
FieldIDs == {100}
Paths == {"a", "b"}

(* commonpb.SegmentState *)
States == {"None", "NotExist", "Growing", "Sealed", "Flushed", "Flushing", "Dropped"}

----------------------------------------------------------------------------
(* Values *)

\* a nil *internalpb.MsgPosition; its getters return zero values
NilPos == [nil |-> TRUE, Timestamp |-> 0, MsgID |-> 0]

\* MsgID is modelled by its length
Pos(ts, msgLen) == [nil |-> FALSE, Timestamp |-> ts, MsgID |-> msgLen]

FB(fid, paths) == [FieldID |-> fid, Binlogs |-> paths]

\* time.Now().UnixNano(): some non-zero instant
Now == 1

Put(f, k, v) == [x \in (DOMAIN f) \cup {k} |-> IF x = k THEN v ELSE f[x]]

Remove(f, k) == [x \in (DOMAIN f) \ {k} |-> f[x]]

RECURSIVE SeqToSet(_)
SeqToSet(s) == IF s = <<>> THEN {} ELSE {Head(s)} \cup SeqToSet(Tail(s))

RECURSIVE TotalPaths(_)
TotalPaths(fbs) == IF fbs = <<>> THEN 0 ELSE Len(Head(fbs).Binlogs) + TotalPaths(Tail(fbs))

----------------------------------------------------------------------------
(* SegmentInfo: the persisted datapb.SegmentInfo plus the in-memory wrapper *)

buildSegmentInfo(collectionID, partitionID, segmentID, channelName) ==
    [ID |-> segmentID,
     CollectionID |-> collectionID,
     PartitionID |-> partitionID,
     InsertChannel |-> channelName,
     NumOfRows |-> 0,
     State |-> "Growing",
     StartPosition |-> NilPos,
     DmlPosition |-> NilPos,
     Binlogs |-> <<>>,
     Statslogs |-> <<>>,
     Deltalogs |-> <<>>,
     DroppedAt |-> 0,
     LastExpireTime |-> 0,
     CreatedByCompaction |-> FALSE,
     CompactionFrom |-> <<>>]

NewSegmentInfo(info) == [info |-> info, currRows |-> 0]

buildSegment(collectionID, partitionID, segmentID, channelName) ==
    NewSegmentInfo(buildSegmentInfo(collectionID, partitionID, segmentID, channelName))

\* proto.Clone: a deep copy
Clone(s) == s

isSegmentHealthy(s) ==
    /\ s.info.State # "None"
    /\ s.info.State # "NotExist"
    /\ s.info.State # "Dropped"

\* SegmentsInfo (the in-memory index)
HasSegment(segs, id) == id \in DOMAIN segs

SetSegment(segs, id, s) == Put(segs, id, s)

SegmentsDropSegment(segs, id) == Remove(segs, id)

SegmentsSetState(segs, id, state) ==
    IF id \in DOMAIN segs THEN [segs EXCEPT ![id].info.State = state] ELSE segs

SetRowCount(segs, id, rows) ==
    IF id \in DOMAIN segs THEN [segs EXCEPT ![id].info.NumOfRows = rows] ELSE segs

SegmentsSetCurrentRows(segs, id, rows) ==
    IF id \in DOMAIN segs THEN [segs EXCEPT ![id].currRows = rows] ELSE segs

SegmentsAddAllocation(segs, id, expire) ==
    IF id \in DOMAIN segs
    THEN [segs EXCEPT ![id].info.LastExpireTime = IF @ < expire THEN expire ELSE @]
    ELSE segs

\* only the state of a modified segment reaches the index
SetAll_statesOnly(segs, mod) ==
    [x \in (DOMAIN segs) \cup (DOMAIN mod) |->
        IF x \in DOMAIN mod
        THEN (IF x \in DOMAIN segs
              THEN [segs[x] EXCEPT !.info.State = mod[x].info.State]
              ELSE mod[x])
        ELSE segs[x]]

SetAll(segs, mod) == [x \in (DOMAIN segs) \cup (DOMAIN mod) |->
                        IF x \in DOMAIN mod THEN mod[x] ELSE segs[x]]

----------------------------------------------------------------------------
(* The catalog (metastore.DataCoordCatalog) over the persisted store *)

\* ListSegments + the SetSegment loop of reloadFromKV
reloadFromKV(st) == [id \in DOMAIN st |-> NewSegmentInfo(st[id])]

CatalogAddSegment(st, info) == Put(st, info.ID, info)

CatalogDropSegment(st, info) == Remove(st, info.ID)

\* one atomic multi-segment write
AlterSegments(st, mod) == [x \in (DOMAIN st) \cup (DOMAIN mod) |->
                             IF x \in DOMAIN mod THEN mod[x].info ELSE st[x]]

----------------------------------------------------------------------------
VARIABLES
    segments,         \* meta.segments: id -> SegmentInfo
    store,            \* persisted segments: id -> datapb.SegmentInfo
    removedChannels,  \* channels whose removal marker is persisted
    comp,             \* what the compaction caller holds between its calls
    last,             \* the last call: operation, arguments, result
    budget,           \* number of calls still to be made
    newSegments,        \* SegmentReplica.newSegments: id -> Segment
    normalSegments,     \* SegmentReplica.normalSegments
    flushedSegments,    \* SegmentReplica.flushedSegments
    compactedSegments,  \* SegmentReplica.compactedSegments
    merging,            \* the mergeFlushedSegments call in progress
    collSchema,         \* SegmentReplica.collSchema, NilSchema when not loaded
    pkHist,             \* history: per segment id, the keys updateSegmentPKRange was
                        \* given and the keys loaded from stats files at registration
    segMu,              \* SegmentReplica.segMu: [writer, readers]
    schemaMut,          \* SegmentReplica.schemaMut: [writer, readers]
    threads,            \* per goroutine, the replica call it is in and where
    fetches,            \* history: the successful metaService.getCollectionSchema calls
    rlast,              \* the last call on the replica
    scheduler           \* the tasks CheckerController has added to its scheduler

metaVars == <<segments, store, removedChannels, comp, last>>

replicaVars == <<newSegments, normalSegments, flushedSegments, compactedSegments,
                 merging, collSchema, pkHist, rlast>>

lockVars == <<segMu, schemaMut, threads, fetches>>

vars == <<metaVars, replicaVars, lockVars, budget, scheduler>>

IdleComp == [pc |-> "idle"]

----------------------------------------------------------------------------
(* Initial stores: the key-value store newMeta is opened on *)

FlushedInfo(id, ch, ts) ==
    [buildSegmentInfo(1, 1, id, ch) EXCEPT
        !.State = "Flushed", !.NumOfRows = 1,
        !.StartPosition = Pos(1, 1), !.DmlPosition = Pos(ts, 1),
        !.Binlogs = <<FB(100, <<"a">>)>>,
        !.Deltalogs = <<FB(100, <<"a">>)>>]

EmptyStore == [x \in {} |-> 0]

InitStores ==
    { EmptyStore,
      [x \in {1} |-> buildSegmentInfo(1, 1, 1, "ch1")],
      [x \in {1, 2} |-> FlushedInfo(x, "ch1", x)],
      [x \in {1, 2} |-> IF x = 1 THEN FlushedInfo(1, "ch1", 2)
                                 ELSE buildSegmentInfo(1, 1, 2, "ch2")] }

\* newMeta: the index is loaded from the store
newMeta(stores) ==
    /\ store \in stores
    /\ segments = reloadFromKV(store)
    /\ removedChannels = {}
    /\ comp = IdleComp
    /\ last = [op |-> "newMeta", err |-> "nil"]

\* the controller's scheduler holds no task
NewCheckerController == scheduler = 0

NoSegments == [x \in {} |-> 0]

IdleMerge == [pc |-> "idle"]

\* the goroutines calling the replica
NumThreads == 2

Threads == 1..NumThreads

NoThread == 0

\* a sync.RWMutex nobody holds
FreeMutex == [writer |-> NoThread, readers |-> {}]

IdleThread == [op |-> "idle", pc |-> "idle"]

NilSchema == [pkType |-> "nil"]

\* the primary key types of updatePKRange
PkTypes == {"Int64", "VarChar"}

\* the schemas the metaService can hold for the collection
ProviderSchemas == {[pkType |-> t] : t \in PkTypes}

(* Primary keys: a key is its rank in the total order of its type *)

MaxPK == 2

PKs == 0..MaxPK

NilPK == -1

\* the size of the bit set of a segment's bloom filter
BloomBits == 5

\* the bits pkFilter.Add (8 bytes of an int64) and pkFilter.AddString set
locations(pkType, pk) ==
    IF pkType = "Int64"
    THEN {pk % BloomBits, (3 * pk + 1) % BloomBits}
    ELSE {(pk + 1) % BloomBits, (2 * pk + 3) % BloomBits}

BloomAdd(bf, pkType, pk) == bf \cup locations(pkType, pk)

BloomTest(bf, pkType, pk) == locations(pkType, pk) \subseteq bf

\* the PrimaryKeyStats a stats file of the store deserializes to
Stats(path) ==
    IF path = "a" THEN [BF |-> {0, 1}, MinPk |-> 0, MaxPk |-> 0]
    ELSE [BF |-> {1, 2, 4}, MinPk |-> 1, MaxPk |-> MaxPK]

NoPkHist == [passed |-> {}, loaded |-> {}]

\* minPK is set by the first key only
updatePk_firstOnly(s, pk) ==
    [s EXCEPT !.minPK = IF @ = NilPK THEN pk ELSE @,
              !.maxPK = IF @ = NilPK THEN pk ELSE IF @ < pk THEN pk ELSE @]

updatePk(s, pk) ==
    [s EXCEPT !.minPK = IF @ = NilPK THEN pk ELSE IF @ > pk THEN pk ELSE @,
              !.maxPK = IF @ = NilPK THEN pk ELSE IF @ < pk THEN pk ELSE @]

\* ids: [type, data]; a batch of another type than int64 and string is skipped
RECURSIVE updatePKRange(_, _)
updatePKRange(s, ids) ==
    IF ids.type \notin {"Int64", "VarChar"} \/ ids.data = <<>> THEN s
    ELSE LET pk == Head(ids.data)
             s1 == updatePk(s, pk)
         IN updatePKRange([s1 EXCEPT !.pkFilter = BloomAdd(@, ids.type, pk)],
                          [ids EXCEPT !.data = Tail(@)])

\* the loop of initPKBloomFilter over the deserialized stats: the first filter
\* seeds pkFilter, the next ones are merged in
RECURSIVE loadStats(_, _)
loadStats(s, paths) ==
    IF paths = <<>> THEN s
    ELSE LET stat == Stats(Head(paths))
             s1 == [s EXCEPT !.pkFilter = @ \cup stat.BF]
         IN loadStats(updatePk(updatePk(s1, stat.MinPk), stat.MaxPk), Tail(paths))

\* the stats files of the primary key field
RECURSIVE bloomFilterFiles(_)
bloomFilterFiles(statsBinLogs) ==
    IF statsBinLogs = <<>> THEN <<>>
    ELSE (IF Head(statsBinLogs).FieldID \in FieldIDs THEN Head(statsBinLogs).Binlogs ELSE <<>>)
         \o bloomFilterFiles(Tail(statsBinLogs))

\* newReplica: the four buckets are empty
newReplica ==
    /\ newSegments = NoSegments
    /\ normalSegments = NoSegments
    /\ flushedSegments = NoSegments
    /\ compactedSegments = NoSegments
    /\ merging = IdleMerge
    /\ collSchema = NilSchema
    /\ pkHist = [id \in SegIDs \cup {CompactToID} |-> NoPkHist]
    /\ segMu = FreeMutex
    /\ schemaMut = FreeMutex
    /\ threads = [t \in Threads |-> IdleThread]
    /\ fetches = 0
    /\ rlast = [op |-> "newReplica", err |-> "nil"]

Init == newMeta(InitStores) /\ newReplica /\ NewCheckerController /\ budget = MaxOps

\* one call on the catalog
Tick == budget > 0 /\ budget' = budget - 1 /\ UNCHANGED <<replicaVars, lockVars, scheduler>>

\* one step of a call on the replica
ReplicaTick == budget > 0 /\ budget' = budget - 1 /\ UNCHANGED <<metaVars, lockVars, scheduler>>

----------------------------------------------------------------------------
(* AddSegment *)

AddSegment ==
    /\ Tick
    /\ \E id \in SegIDs, ch \in Channels, ok \in BOOLEAN :
        LET segment == buildSegment(1, 1, id, ch) IN
        /\ id \notin DOMAIN segments
        /\ id \notin DOMAIN store
        /\ IF ok
           THEN /\ store' = CatalogAddSegment(store, segment.info)
                /\ segments' = SetSegment(segments, id, segment)
           ELSE UNCHANGED <<store, segments>>
        /\ last' = [op |-> "AddSegment", id |-> id,
                    err |-> IF ok THEN "nil" ELSE "store"]
    /\ UNCHANGED <<removedChannels, comp>>

(* DropSegment *)

DropSegment ==
    /\ Tick
    /\ \E id \in SegIDs \cup {CompactToID}, ok \in BOOLEAN :
        /\ IF ~HasSegment(segments, id)
           THEN /\ UNCHANGED <<store, segments>>
                /\ last' = [op |-> "DropSegment", id |-> id, err |-> "nil", found |-> FALSE]
           ELSE /\ IF ok
                   THEN /\ store' = CatalogDropSegment(store, segments[id].info)
                        /\ segments' = SegmentsDropSegment(segments, id)
                   ELSE UNCHANGED <<store, segments>>
                /\ last' = [op |-> "DropSegment", id |-> id,
                            err |-> IF ok THEN "nil" ELSE "store", found |-> TRUE,
                            state |-> segments[id].info.State]
    /\ UNCHANGED <<removedChannels, comp>>

(* SetState *)

SetState(ids, targets) ==
    /\ Tick
    /\ \E id \in ids, targetState \in targets, ok \in BOOLEAN :
        IF ~HasSegment(segments, id)
        THEN /\ UNCHANGED <<store, segments>>
             /\ last' = [op |-> "SetState", id |-> id, target |-> targetState,
                         err |-> "nil", found |-> FALSE, wrote |-> FALSE]
        ELSE LET curSegInfo == segments[id]
                 clonedSegment == [Clone(curSegInfo) EXCEPT !.info.State = targetState]
             IN IF isSegmentHealthy(clonedSegment)
                THEN /\ IF ok
                        THEN /\ store' = AlterSegments(store, [x \in {id} |-> clonedSegment])
                             /\ segments' = SegmentsSetState(segments, id, targetState)
                        ELSE UNCHANGED <<store, segments>>
                     /\ last' = [op |-> "SetState", id |-> id, target |-> targetState,
                                 err |-> IF ok THEN "nil" ELSE "store",
                                 found |-> TRUE, wrote |-> ok,
                                 oldState |-> curSegInfo.info.State]
                ELSE /\ store' = store
                     /\ segments' = SegmentsSetState(segments, id, targetState)
                     /\ last' = [op |-> "SetState", id |-> id, target |-> targetState,
                                 err |-> "nil", found |-> TRUE, wrote |-> FALSE,
                                 oldState |-> curSegInfo.info.State]
    /\ UNCHANGED <<removedChannels, comp>>

(* AddAllocation *)

AddAllocation ==
    /\ Tick
    /\ \E id \in SegIDs, expire \in 1..MaxExpire, ok \in BOOLEAN :
        IF ~HasSegment(segments, id)
        THEN /\ UNCHANGED <<store, segments>>
             /\ last' = [op |-> "AddAllocation", id |-> id, err |-> "nil", found |-> FALSE]
        ELSE LET clonedSegment == SegmentsAddAllocation(segments, id, expire)[id]
             IN IF isSegmentHealthy(clonedSegment)
                THEN /\ IF ok
                        THEN /\ store' = AlterSegments(store, [x \in {id} |-> clonedSegment])
                             /\ segments' = SegmentsAddAllocation(segments, id, expire)
                        ELSE UNCHANGED <<store, segments>>
                     /\ last' = [op |-> "AddAllocation", id |-> id,
                                 err |-> IF ok THEN "nil" ELSE "store", found |-> TRUE]
                ELSE /\ store' = store
                     /\ segments' = SegmentsAddAllocation(segments, id, expire)
                     /\ last' = [op |-> "AddAllocation", id |-> id, err |-> "nil",
                                 found |-> TRUE]
    /\ UNCHANGED <<removedChannels, comp>>

(* SetCurrentRows *)

SetCurrentRows ==
    /\ Tick
    /\ \E id \in SegIDs, rows \in 0..MaxRows :
        /\ HasSegment(segments, id)
        /\ segments[id].currRows # rows
        /\ segments' = SegmentsSetCurrentRows(segments, id, rows)
        /\ last' = [op |-> "SetCurrentRows", id |-> id, err |-> "nil"]
    /\ UNCHANGED <<store, removedChannels, comp>>

(* UpdateFlushSegmentsInfo *)

\* index of the first entry of binlogs with the field id, 0 for nil
getFieldBinlogs(id, binlogs) ==
    IF \E i \in 1..Len(binlogs) : binlogs[i].FieldID = id
    THEN CHOOSE i \in 1..Len(binlogs) :
            /\ binlogs[i].FieldID = id
            /\ \A j \in 1..(i - 1) : binlogs[j].FieldID # id
    ELSE 0

\* the loop that merges a batch of field binlogs into the current ones
RECURSIVE mergeFieldBinlogs(_, _)
mergeFieldBinlogs(curr, batch) ==
    IF batch = <<>> THEN curr
    ELSE LET t == Head(batch)
             i == getFieldBinlogs(t.FieldID, curr)
             merged == IF i = 0
                       THEN Append(curr, t)
                       ELSE [curr EXCEPT ![i].Binlogs = @ \o t.Binlogs]
         IN mergeFieldBinlogs(merged, Tail(batch))

\* getClonedSegment: is there a segment to work on, and which
hasClonedSegment(mod, segs, id) ==
    \/ id \in DOMAIN mod
    \/ (id \in DOMAIN segs /\ isSegmentHealthy(segs[id]))

getClonedSegment(mod, segs, id) ==
    IF id \in DOMAIN mod THEN mod[id] ELSE Clone(segs[id])

RECURSIVE applyStartPositions(_, _, _)
applyStartPositions(mod, segs, startPositions) ==
    IF startPositions = <<>> THEN mod
    ELSE LET pos == Head(startPositions)
             rest == Tail(startPositions)
         IN IF pos.StartPosition.MsgID = 0
            THEN applyStartPositions(mod, segs, rest)
            ELSE IF ~hasClonedSegment(mod, segs, pos.SegmentID)
            THEN applyStartPositions(mod, segs, rest)
            ELSE LET s == getClonedSegment(mod, segs, pos.SegmentID)
                 IN applyStartPositions(
                       Put(mod, pos.SegmentID,
                           [s EXCEPT !.info.StartPosition = pos.StartPosition]),
                       segs, rest)

\* the test with > in place of >=
checkpointIsStale_strict(s, cp) ==
    /\ ~s.info.DmlPosition.nil
    /\ s.info.DmlPosition.Timestamp > cp.Position.Timestamp

\* the stale-checkpoint test of the checkpoint loop
checkpointIsStale(s, cp) ==
    /\ ~s.info.DmlPosition.nil
    /\ s.info.DmlPosition.Timestamp >= cp.Position.Timestamp

RECURSIVE applyCheckpoints(_, _, _)
applyCheckpoints(mod, segs, checkpoints) ==
    IF checkpoints = <<>> THEN mod
    ELSE LET cp == Head(checkpoints)
             rest == Tail(checkpoints)
         IN IF ~hasClonedSegment(mod, segs, cp.SegmentID)
            THEN applyCheckpoints(mod, segs, rest)
            ELSE LET s == getClonedSegment(mod, segs, cp.SegmentID)
                 IN IF checkpointIsStale(s, cp)
                    THEN applyCheckpoints(mod, segs, rest)
                    ELSE applyCheckpoints(
                           Put(mod, cp.SegmentID,
                               [s EXCEPT !.info.DmlPosition = cp.Position,
                                         !.info.NumOfRows = cp.NumOfRows]),
                           segs, rest)

\* the importing branch at the head of UpdateFlushSegmentsInfo
flushImporting(segs, c) ==
    IF c.importing THEN SetRowCount(segs, c.id, segs[c.id].currRows) ELSE segs

\* the flushed/dropped flags applied to the clone
flushSetState(cloned, c) ==
    LET s1 == IF c.flushed THEN [cloned EXCEPT !.info.State = "Flushing"] ELSE cloned
    IN IF c.dropped
       THEN [s1 EXCEPT !.info.State = "Dropped", !.info.DroppedAt = Now]
       ELSE s1

\* the batch merged into the statslogs the way binlogs are
flushStatslogs_merge(cloned, c) ==
    [cloned EXCEPT !.info.Statslogs = mergeFieldBinlogs(@, c.statslogs)]

flushStatslogs(cloned, c) ==
    IF Len(c.statslogs) > 0 THEN [cloned EXCEPT !.info.Statslogs = c.statslogs] ELSE cloned

\* modSegments of UpdateFlushSegmentsInfo, computed on the index segs
flushModSegments(segs, c) ==
    LET s1 == flushSetState(Clone(segs[c.id]), c)
        s2 == [s1 EXCEPT !.info.Binlogs = mergeFieldBinlogs(@, c.binlogs)]
        s3 == flushStatslogs(s2, c)
        s4 == [s3 EXCEPT !.info.Deltalogs = mergeFieldBinlogs(@, c.deltalogs)]
        m0 == [x \in {c.id} |-> s4]
        m1 == applyStartPositions(m0, segs, c.startPositions)
    IN applyCheckpoints(m1, segs, c.checkpoints)

\* what a call does: "panic", "skip" (returns nil early) or "write"
flushKind(segs, c) ==
    IF c.importing /\ ~HasSegment(segs, c.id) THEN "panic"
    ELSE IF ~HasSegment(segs, c.id) THEN "skip"
    ELSE IF ~isSegmentHealthy(segs[c.id]) THEN "skip"
    ELSE "write"

\* the calls the model makes
CP(id, ts, rows) == [SegmentID |-> id, Position |-> Pos(ts, 1), NumOfRows |-> rows]

SP(id, msgLen) == [SegmentID |-> id, StartPosition |-> Pos(2, msgLen)]

LogBatches == {<<FB(f, <<p>>)>> : f \in FieldIDs, p \in Paths}

FlushCall(id, f, d, imp, b, s, dl, cps, sps) ==
    [id |-> id, flushed |-> f, dropped |-> d, importing |-> imp,
     binlogs |-> b, statslogs |-> s, deltalogs |-> dl,
     checkpoints |-> cps, startPositions |-> sps]

FlushCalls ==
    {FlushCall(id, f, d, imp, <<>>, <<>>, <<>>, <<>>, <<>>) :
        id \in {1, UnknownID}, f \in BOOLEAN, d \in BOOLEAN, imp \in BOOLEAN}
    \cup {FlushCall(1, FALSE, FALSE, FALSE, b, <<>>, <<>>, <<>>, <<>>) : b \in LogBatches}
    \cup {FlushCall(1, FALSE, FALSE, FALSE, <<>>, b, <<>>, <<>>, <<>>) : b \in LogBatches}
    \cup {FlushCall(1, FALSE, FALSE, FALSE, <<>>, <<>>, b, <<>>, <<>>) : b \in LogBatches}
    \cup {FlushCall(1, FALSE, FALSE, imp, <<>>, <<>>, <<>>, <<CP(i, ts, 0)>>, <<>>) :
        imp \in BOOLEAN, i \in SegIDs, ts \in 1..MaxTs}
    \cup {FlushCall(1, FALSE, FALSE, FALSE, <<>>, <<>>, <<>>,
                    <<CP(2, MaxTs, 0), CP(2, 1, 0)>>, <<>>)}
    \cup {FlushCall(1, TRUE, FALSE, FALSE, <<>>, <<>>, <<>>, <<>>, <<SP(i, l)>>) :
        i \in SegIDs, l \in {0, 1}}

LogsWithinBound(mod) ==
    \A x \in DOMAIN mod :
        /\ TotalPaths(mod[x].info.Binlogs) <= MaxPaths
        /\ TotalPaths(mod[x].info.Deltalogs) <= MaxPaths

UpdateFlushSegmentsInfo(calls) ==
    /\ Tick
    /\ \E c \in calls, ok \in BOOLEAN :
        LET kind == flushKind(segments, c) IN
        CASE kind = "panic" ->
                /\ ok
                /\ UNCHANGED <<store, segments>>
                /\ last' = [op |-> "UpdateFlushSegmentsInfo", call |-> c,
                            err |-> "panic", kind |-> kind]
          [] kind = "skip" ->
                /\ ok
                /\ store' = store
                /\ segments' = flushImporting(segments, c)
                /\ last' = [op |-> "UpdateFlushSegmentsInfo", call |-> c,
                            err |-> "nil", kind |-> kind]
          [] kind = "write" ->
                LET segs1 == flushImporting(segments, c)
                    modSegments == flushModSegments(segs1, c)
                IN /\ LogsWithinBound(modSegments)
                   /\ IF ok
                      THEN /\ store' = AlterSegments(store, modSegments)
                           /\ segments' = SetAll(segs1, modSegments)
                      ELSE /\ store' = store
                           /\ segments' = segs1
                   /\ last' = [op |-> "UpdateFlushSegmentsInfo", call |-> c,
                               err |-> IF ok THEN "nil" ELSE "store", kind |-> kind,
                               touched |-> DOMAIN modSegments,
                               oldStatslogs |-> segments[c.id].info.Statslogs]
    /\ UNCHANGED <<removedChannels, comp>>

(* UpdateDropChannelSegmentInfo *)

\* what mergeDropSegment returns for a segment it does not skip
mergeDropSegment(segs, seg2Drop) ==
    LET cloned == [Clone(segs[seg2Drop.ID]) EXCEPT !.info.State = "Dropped"]
        s1 == [cloned EXCEPT
                 !.info.Binlogs = mergeFieldBinlogs(@, seg2Drop.Binlogs),
                 !.info.Statslogs = mergeFieldBinlogs(@, seg2Drop.Statslogs),
                 !.info.Deltalogs = @ \o seg2Drop.Deltalogs]
        s2 == IF ~seg2Drop.StartPosition.nil
              THEN [s1 EXCEPT !.info.StartPosition = seg2Drop.StartPosition]
              ELSE s1
        s3 == IF ~seg2Drop.DmlPosition.nil
              THEN [s2 EXCEPT !.info.DmlPosition = seg2Drop.DmlPosition]
              ELSE s2
    IN [s3 EXCEPT !.currRows = seg2Drop.currRows]

\* mergeDropSegment returns nil
mergeDropSkips(segs, seg2Drop) ==
    \/ ~HasSegment(segs, seg2Drop.ID)
    \/ ~isSegmentHealthy(segs[seg2Drop.ID])

\* first loop of UpdateDropChannelSegmentInfo: the segments passed in
RECURSIVE dropListed(_, _, _)
dropListed(mod, segs, segs2Drop) ==
    IF segs2Drop = <<>> THEN mod
    ELSE LET seg2Drop == Head(segs2Drop)
         IN IF mergeDropSkips(segs, seg2Drop)
            THEN dropListed(mod, segs, Tail(segs2Drop))
            ELSE dropListed(Put(mod, seg2Drop.ID, mergeDropSegment(segs, seg2Drop)),
                            segs, Tail(segs2Drop))

\* second loop: the other segments of the channel
dropChannelModSegments(segs, channel, segs2Drop) ==
    LET listed == dropListed([x \in {} |-> 0], segs, segs2Drop)
        others == {id \in DOMAIN segs :
                      segs[id].info.InsertChannel = channel /\ id \notin DOMAIN listed}
    IN [id \in (DOMAIN listed) \cup others |->
           IF id \in DOMAIN listed THEN listed[id]
           ELSE [Clone(segs[id]) EXCEPT !.info.State = "Dropped"]]

\* SaveDroppedSegmentsInBatch: the batches that reached the store are `saved`
SaveDroppedSegmentsInBatch(st, mod, saved) ==
    [x \in (DOMAIN st) \cup saved |-> IF x \in saved THEN mod[x].info ELSE st[x]]

MarkChannelDeleted(marked, channel) == marked \cup {channel}

\* the marker written before the segments
batchSaveDropSegments_markFirst(channel, modSegments, outcome, saved) ==
    CASE outcome = "save" ->
            /\ store' = SaveDroppedSegmentsInBatch(store, modSegments, saved)
            /\ removedChannels' = MarkChannelDeleted(removedChannels, channel)
            /\ UNCHANGED segments
      [] outcome = "mark" ->
            /\ store' = SaveDroppedSegmentsInBatch(store, modSegments, DOMAIN modSegments)
            /\ UNCHANGED <<removedChannels, segments>>
      [] outcome = "nil" ->
            /\ store' = SaveDroppedSegmentsInBatch(store, modSegments, DOMAIN modSegments)
            /\ removedChannels' = MarkChannelDeleted(removedChannels, channel)
            /\ segments' = SetAll(segments, modSegments)

\* batchSaveDropSegments: outcome "save" (first store call fails after the
\* batches `saved`), "mark" (second store call fails) or "nil"
batchSaveDropSegments(channel, modSegments, outcome, saved) ==
    CASE outcome = "save" ->
            /\ store' = SaveDroppedSegmentsInBatch(store, modSegments, saved)
            /\ UNCHANGED <<removedChannels, segments>>
      [] outcome = "mark" ->
            /\ store' = SaveDroppedSegmentsInBatch(store, modSegments, DOMAIN modSegments)
            /\ UNCHANGED <<removedChannels, segments>>
      [] outcome = "nil" ->
            /\ store' = SaveDroppedSegmentsInBatch(store, modSegments, DOMAIN modSegments)
            /\ removedChannels' = MarkChannelDeleted(removedChannels, channel)
            /\ segments' = SetAll(segments, modSegments)

Seg2Drop(id, binlogs, deltalogs, startPos, dmlPos) ==
    [ID |-> id, Binlogs |-> binlogs, Statslogs |-> <<>>, Deltalogs |-> deltalogs,
     StartPosition |-> startPos, DmlPosition |-> dmlPos, currRows |-> 0]

DropCall(ch, segs2Drop) == [channel |-> ch, segments |-> segs2Drop]

PartialSaves(mod) == IF DOMAIN mod = {} THEN {{}} ELSE (SUBSET (DOMAIN mod)) \ {DOMAIN mod}

UpdateDropChannelSegmentInfo(calls) ==
    /\ Tick
    /\ \E c \in calls, outcome \in {"save", "mark", "nil"} :
        LET modSegments == dropChannelModSegments(segments, c.channel, c.segments) IN
        /\ LogsWithinBound(modSegments)
        /\ \E saved \in IF outcome = "save" THEN PartialSaves(modSegments) ELSE {{}} :
              batchSaveDropSegments(c.channel, modSegments, outcome, saved)
        /\ last' = [op |-> "UpdateDropChannelSegmentInfo", call |-> c,
                    err |-> IF outcome = "nil" THEN "nil" ELSE "store",
                    outcome |-> outcome, mod |-> modSegments,
                    retryOf |-> IF /\ last.op = "UpdateDropChannelSegmentInfo"
                                   /\ last.err = "store"
                                   /\ last.call = c
                                THEN last.outcome ELSE "none"]
    /\ UNCHANGED comp

----------------------------------------------------------------------------
(* Compaction: GetCompleteCompactionMeta, the two store calls, the in-memory
   commit *)

Perms(S) == {p \in [1..Cardinality(S) -> S] :
                \A i, j \in 1..Cardinality(S) : i # j => p[i] # p[j]}

\* a path is removed when any entry of removes has it, whatever its field id
RECURSIVE updateDeltalogs_anyField(_, _)
updateDeltalogs_anyField(origin, removes) ==
    IF origin = <<>> THEN {<<>>}
    ELSE LET fbl == Head(origin)
             removed == UNION {SeqToSet(removes[i].Binlogs) : i \in 1..Len(removes)}
             logs == SeqToSet(fbl.Binlogs) \ removed
             rest == updateDeltalogs_anyField(Tail(origin), removes)
         IN IF logs = {} THEN rest
            ELSE {<<FB(fbl.FieldID, p)>> \o r : p \in Perms(logs), r \in rest}

\* the results updateDeltalogs can return (map iteration orders the paths)
RECURSIVE updateDeltalogs(_, _)
updateDeltalogs(origin, removes) ==
    IF origin = <<>> THEN {<<>>}
    ELSE LET fbl == Head(origin)
             removed == UNION {SeqToSet(removes[i].Binlogs) :
                                 i \in {j \in 1..Len(removes) :
                                          removes[j].FieldID = fbl.FieldID}}
             logs == SeqToSet(fbl.Binlogs) \ removed
             rest == updateDeltalogs(Tail(origin), removes)
         IN IF logs = {} THEN rest
            ELSE {<<FB(fbl.FieldID, p)>> \o r : p \in Perms(logs), r \in rest}

\* the first loop: the sources found in the index, in the order given
RECURSIVE compactionSources(_, _)
compactionSources(segs, logs) ==
    IF logs = <<>> THEN <<>>
    ELSE IF HasSegment(segs, Head(logs).SegmentID)
         THEN <<segs[Head(logs).SegmentID]>> \o compactionSources(segs, Tail(logs))
         ELSE compactionSources(segs, Tail(logs))

compactionDropped(s) == [Clone(s) EXCEPT !.info.State = "Dropped", !.info.DroppedAt = Now]

\* the loop without the test for a source's nil position
RECURSIVE earliestPosition_noNilTest(_, _)
earliestPosition_noNilTest(acc, positions) ==
    IF positions = <<>> THEN acc
    ELSE LET p == Head(positions)
             next == IF acc.nil \/ p.Timestamp < acc.Timestamp THEN p ELSE acc
         IN earliestPosition_noNilTest(next, Tail(positions))

\* the earliest position, as the second loop computes it
RECURSIVE earliestPosition(_, _)
earliestPosition(acc, positions) ==
    IF positions = <<>> THEN acc
    ELSE LET p == Head(positions)
             next == IF acc.nil \/ (~p.nil /\ p.Timestamp < acc.Timestamp) THEN p ELSE acc
         IN earliestPosition(next, Tail(positions))

RECURSIVE concatDeltalogs(_)
concatDeltalogs(xs) ==
    IF xs = <<>> THEN <<>> ELSE Head(xs).Deltalogs \o concatDeltalogs(Tail(xs))

compactionNewSegment(modSegments, result, newAddedDeltalogs) ==
    NewSegmentInfo(
      [ID |-> result.SegmentID,
       CollectionID |-> modSegments[1].info.CollectionID,
       PartitionID |-> modSegments[1].info.PartitionID,
       InsertChannel |-> modSegments[1].info.InsertChannel,
       NumOfRows |-> result.NumOfRows,
       State |-> "Flushing",
       StartPosition |-> earliestPosition(NilPos,
                            [i \in 1..Len(modSegments) |-> modSegments[i].info.StartPosition]),
       DmlPosition |-> earliestPosition(NilPos,
                            [i \in 1..Len(modSegments) |-> modSegments[i].info.DmlPosition]),
       Binlogs |-> result.InsertLogs,
       Statslogs |-> result.Field2StatslogPaths,
       Deltalogs |-> result.Deltalogs \o newAddedDeltalogs,
       DroppedAt |-> 0,
       LastExpireTime |-> 0,
       CreatedByCompaction |-> TRUE,
       CompactionFrom |-> [i \in 1..Len(modSegments) |-> modSegments[i].info.ID]])

CompactionLog(id, deltalogs) == [SegmentID |-> id, Deltalogs |-> deltalogs]

CompactionResult(id, rows, deltalogs) ==
    [SegmentID |-> id, NumOfRows |-> rows, InsertLogs |-> <<FB(100, <<"c">>)>>,
     Field2StatslogPaths |-> <<FB(100, <<"c">>)>>, Deltalogs |-> deltalogs]

CompactionCall(logs, result) == [logs |-> logs, result |-> result]

GetCompleteCompactionMeta(calls) ==
    /\ Tick
    /\ \E c \in calls :
        LET sources == compactionSources(segments, c.logs)
            modSegments == [i \in 1..Len(sources) |-> compactionDropped(sources[i])]
            oldSegments == [i \in 1..Len(sources) |-> Clone(sources[i]).info]
        IN /\ c.result.SegmentID \notin DOMAIN segments
           /\ c.result.SegmentID \notin DOMAIN store
           /\ IF Len(modSegments) = 0
              THEN \* modSegments[0]: index out of range
                   /\ comp' = IdleComp
                   /\ last' = [op |-> "GetCompleteCompactionMeta", call |-> c, err |-> "panic"]
              ELSE \E newAdded \in updateDeltalogs(concatDeltalogs(
                                      [i \in 1..Len(modSegments) |-> modSegments[i].info]),
                                      concatDeltalogs(c.logs)) :
                   /\ comp' = [pc |-> "got", call |-> c,
                               oldSegments |-> oldSegments,
                               modSegments |-> modSegments,
                               newSegment |-> compactionNewSegment(modSegments, c.result, newAdded),
                               atCall |-> [i \in 1..Len(sources) |-> sources[i].info.State],
                               fwd |-> FALSE, rev |-> FALSE, pre |-> EmptyStore]
                   /\ last' = [op |-> "GetCompleteCompactionMeta", call |-> c, err |-> "nil"]
    /\ UNCHANGED <<segments, store, removedChannels>>

\* catalog.AlterSegmentsAndAddNewSegment: one atomic write
AlterSegmentsAndAddNewSegment(st, modInfos, newInfo) ==
    LET ids == {modInfos[i].ID : i \in 1..Len(modInfos)}
        \* the last entry written for an id wins
        pick(id) == modInfos[CHOOSE i \in 1..Len(modInfos) :
                        /\ modInfos[i].ID = id
                        /\ \A j \in (i + 1)..Len(modInfos) : modInfos[j].ID # id]
    IN [x \in (DOMAIN st) \cup ids \cup {newInfo.ID} |->
          IF x = newInfo.ID THEN newInfo
          ELSE IF x \in ids THEN pick(x) ELSE st[x]]

\* catalog.RevertAlterSegmentsAndAddNewSegment: one atomic write with removal
RevertAlterSegmentsAndAddNewSegment(st, oldInfos, removalInfo) ==
    LET ids == {oldInfos[i].ID : i \in 1..Len(oldInfos)}
        pick(id) == oldInfos[CHOOSE i \in 1..Len(oldInfos) :
                        /\ oldInfos[i].ID = id
                        /\ \A j \in (i + 1)..Len(oldInfos) : oldInfos[j].ID # id]
    IN [x \in ((DOMAIN st) \cup ids) \ {removalInfo.ID} |->
          IF x \in ids THEN pick(x) ELSE st[x]]

alterMetaStoreAfterCompaction ==
    /\ Tick
    /\ comp.pc = "got"
    /\ ~comp.rev
    /\ \E ok \in BOOLEAN :
        /\ IF ok
           THEN /\ store' = AlterSegmentsAndAddNewSegment(store,
                               [i \in 1..Len(comp.modSegments) |-> comp.modSegments[i].info],
                               comp.newSegment.info)
                /\ comp' = [comp EXCEPT !.fwd = TRUE, !.pre = IF comp.fwd THEN @ ELSE store]
           ELSE UNCHANGED <<store, comp>>
        /\ last' = [op |-> "alterMetaStoreAfterCompaction",
                    err |-> IF ok THEN "nil" ELSE "store",
                    again |-> (last.op = "alterMetaStoreAfterCompaction" /\ last.err = "nil")]
    /\ UNCHANGED <<segments, removedChannels>>

\* revert handed the modified sources instead of the old snapshots
revertAlterMetaStoreAfterCompaction_modified ==
    /\ Tick
    /\ comp.pc = "got"
    /\ comp.fwd
    /\ \E ok \in BOOLEAN :
        /\ IF ok
           THEN /\ store' = RevertAlterSegmentsAndAddNewSegment(store,
                               [i \in 1..Len(comp.modSegments) |-> comp.modSegments[i].info],
                               comp.newSegment.info)
                /\ comp' = [comp EXCEPT !.rev = TRUE]
           ELSE UNCHANGED <<store, comp>>
        /\ last' = [op |-> "revertAlterMetaStoreAfterCompaction",
                    err |-> IF ok THEN "nil" ELSE "store",
                    again |-> (last.op = "revertAlterMetaStoreAfterCompaction" /\ last.err = "nil")]
    /\ UNCHANGED <<segments, removedChannels>>

revertAlterMetaStoreAfterCompaction ==
    /\ Tick
    /\ comp.pc = "got"
    /\ comp.fwd
    /\ \E ok \in BOOLEAN :
        /\ IF ok
           THEN /\ store' = RevertAlterSegmentsAndAddNewSegment(store,
                               comp.oldSegments, comp.newSegment.info)
                /\ comp' = [comp EXCEPT !.rev = TRUE]
           ELSE UNCHANGED <<store, comp>>
        /\ last' = [op |-> "revertAlterMetaStoreAfterCompaction",
                    err |-> IF ok THEN "nil" ELSE "store",
                    again |-> (last.op = "revertAlterMetaStoreAfterCompaction" /\ last.err = "nil")]
    /\ UNCHANGED <<segments, removedChannels>>

\* the commit without the test for an empty result
inMemoryAfterCompaction_noRowTest(segs, segmentCompactTo, segmentsCompactFrom) ==
    LET ids == {segmentsCompactFrom[i].info.ID : i \in 1..Len(segmentsCompactFrom)}
        pick(id) == segmentsCompactFrom[CHOOSE i \in 1..Len(segmentsCompactFrom) :
                        /\ segmentsCompactFrom[i].info.ID = id
                        /\ \A j \in (i + 1)..Len(segmentsCompactFrom) :
                              segmentsCompactFrom[j].info.ID # id]
        segs1 == [x \in (DOMAIN segs) \cup ids |-> IF x \in ids THEN pick(x) ELSE segs[x]]
    IN SetSegment(segs1, segmentCompactTo.info.ID, segmentCompactTo)

\* the in-memory index after alterInMemoryMetaAfterCompaction
inMemoryAfterCompaction(segs, segmentCompactTo, segmentsCompactFrom) ==
    LET ids == {segmentsCompactFrom[i].info.ID : i \in 1..Len(segmentsCompactFrom)}
        pick(id) == segmentsCompactFrom[CHOOSE i \in 1..Len(segmentsCompactFrom) :
                        /\ segmentsCompactFrom[i].info.ID = id
                        /\ \A j \in (i + 1)..Len(segmentsCompactFrom) :
                              segmentsCompactFrom[j].info.ID # id]
        segs1 == [x \in (DOMAIN segs) \cup ids |-> IF x \in ids THEN pick(x) ELSE segs[x]]
    IN IF segmentCompactTo.info.NumOfRows > 0
       THEN SetSegment(segs1, segmentCompactTo.info.ID, segmentCompactTo)
       ELSE segs1

alterInMemoryMetaAfterCompaction ==
    /\ Tick
    /\ comp.pc = "got"
    /\ comp.fwd
    /\ ~comp.rev
    /\ segments' = inMemoryAfterCompaction(segments, comp.newSegment, comp.modSegments)
    /\ comp' = [comp EXCEPT !.pc = "done"]
    /\ last' = [op |-> "alterInMemoryMetaAfterCompaction", err |-> "nil"]
    /\ UNCHANGED <<store, removedChannels>>

(* a crash of the process and a restart on the same store: newMeta *)

Restart ==
    /\ Tick
    /\ segments' = reloadFromKV(store)
    /\ comp' = IdleComp
    /\ last' = [op |-> "newMeta", err |-> "nil"]
    /\ UNCHANGED <<store, removedChannels>>

----------------------------------------------------------------------------
(* The queries: each reads the index under the read lock *)

NilSegment == [nil |-> TRUE]

CollectionIDs == {1, 2}
PartitionIDs == {1, 2}

\* m.segments.GetSegments(): every entry of the index
GetSegments(segs) == {segs[id] : id \in DOMAIN segs}

GetSegment(segs, segID) ==
    IF HasSegment(segs, segID) /\ isSegmentHealthy(segs[segID])
    THEN segs[segID] ELSE NilSegment

GetSegmentUnsafe(segs, segID) ==
    IF HasSegment(segs, segID) THEN segs[segID] ELSE NilSegment

\* the channel's segments whatever their state
GetSegmentsByChannel_noHealthTest(segs, dmlCh) ==
    {s \in GetSegments(segs) : ~(s.info.InsertChannel # dmlCh)}

GetSegmentsByChannel(segs, dmlCh) ==
    {s \in GetSegments(segs) :
        ~(~isSegmentHealthy(s) \/ s.info.InsertChannel # dmlCh)}

GetSegmentsOfCollection(segs, collectionID) ==
    {s \in GetSegments(segs) :
        isSegmentHealthy(s) /\ s.info.CollectionID = collectionID}

GetSegmentsIDOfPartition(segs, collectionID, partitionID) ==
    {s.info.ID : s \in {t \in GetSegments(segs) :
        /\ isSegmentHealthy(t)
        /\ t.info.CollectionID = collectionID
        /\ t.info.PartitionID = partitionID}}

\* the selectors the callers pass to GetSegmentsChanPart
SegmentSelectors == {"all", "healthy", "flushed"}

selector(name, s) ==
    CASE name = "all" -> TRUE
      [] name = "healthy" -> isSegmentHealthy(s)
      [] name = "flushed" -> s.info.State = "Flushed"

\* the key made of the channel alone
dim_channelOnly(s) == <<"-", s.info.InsertChannel>>

\* fmt.Sprintf("%d-%s", PartitionID, InsertChannel)
dim(s) == <<s.info.PartitionID, "-", s.info.InsertChannel>>

\* the results GetSegmentsChanPart can return: one entry per key, filled with
\* the collection, partition and channel of the segment the map iteration met
\* first under that key
GetSegmentsChanPart(segs, name) ==
    LET selected == {s \in GetSegments(segs) : selector(name, s)}
        dims == {dim(s) : s \in selected}
        members(d) == {s \in selected : dim(s) = d}
    IN { { [collectionID |-> first[d].info.CollectionID,
            partitionID |-> first[d].info.PartitionID,
            channelName |-> first[d].info.InsertChannel,
            segments |-> members(d)] : d \in dims } :
         first \in {g \in [dims -> selected] : \A d \in dims : g[d] \in members(d)} }

\* ret += NumOfRows over the entries that pass the test
RECURSIVE SumNumOfRows(_)
SumNumOfRows(S) ==
    IF S = {} THEN 0
    ELSE LET s == CHOOSE x \in S : TRUE
         IN s.info.NumOfRows + SumNumOfRows(S \ {s})

GetNumRowsOfCollection(segs, collectionID) ==
    SumNumOfRows({s \in GetSegments(segs) :
        isSegmentHealthy(s) /\ s.info.CollectionID = collectionID})

GetNumRowsOfPartition(segs, collectionID, partitionID) ==
    SumNumOfRows({s \in GetSegments(segs) :
        /\ isSegmentHealthy(s)
        /\ s.info.CollectionID = collectionID
        /\ s.info.PartitionID = partitionID})

----------------------------------------------------------------------------

(* The calls of the specification of the whole catalog *)

SetStateTargets == {"Growing", "Flushed", "Dropped", "NotExist"}

FlushCallsLite ==
    { FlushCall(1, TRUE, FALSE, FALSE, <<>>, <<>>, <<>>, <<>>, <<>>),
      FlushCall(1, FALSE, TRUE, FALSE, <<>>, <<>>, <<>>, <<>>, <<>>),
      FlushCall(1, FALSE, FALSE, TRUE, <<>>, <<>>, <<>>, <<>>, <<>>),
      FlushCall(1, FALSE, FALSE, FALSE, <<>>, <<>>, <<FB(100, <<"b">>)>>, <<>>, <<>>),
      FlushCall(1, FALSE, FALSE, FALSE, <<>>, <<>>, <<>>, <<CP(2, 1, 0)>>, <<>>) }

DropCallsLite ==
    { DropCall("ch1", <<>>),
      DropCall("ch1", <<Seg2Drop(1, <<>>, <<>>, NilPos, Pos(1, 1))>>),
      DropCall("ch2", <<Seg2Drop(1, <<>>, <<>>, NilPos, NilPos)>>) }

CompactionCallsLite ==
    { CompactionCall(<<CompactionLog(1, <<FB(100, <<"a">>)>>),
                       CompactionLog(2, <<FB(100, <<"a">>)>>)>>,
                     CompactionResult(CompactToID, r, <<>>)) : r \in 0..MaxRows }
    \cup { CompactionCall(<<CompactionLog(UnknownID, <<>>)>>,
                          CompactionResult(CompactToID, 1, <<>>)) }

Next ==
    \/ AddSegment
    \/ DropSegment
    \/ SetState(SegIDs \cup {UnknownID}, SetStateTargets)
    \/ AddAllocation
    \/ SetCurrentRows
    \/ UpdateFlushSegmentsInfo(FlushCallsLite)
    \/ UpdateDropChannelSegmentInfo(DropCallsLite)
    \/ GetCompleteCompactionMeta(CompactionCallsLite)
    \/ alterMetaStoreAfterCompaction
    \/ revertAlterMetaStoreAfterCompaction
    \/ alterInMemoryMetaAfterCompaction
    \/ Restart

Spec == Init /\ [][Next]_vars

----------------------------------------------------------------------------
(* The flush path alone, with more calls *)

InitFlush == newMeta(InitStores) /\ newReplica /\ NewCheckerController /\ budget = MaxFlushOps

NextFlush ==
    \/ UpdateFlushSegmentsInfo(FlushCalls)
    \/ SetCurrentRows

SpecFlush == InitFlush /\ [][NextFlush]_vars

----------------------------------------------------------------------------
(* The compaction sequence interleaved with other callers of the catalog *)

CompactionLogLists ==
    { <<CompactionLog(1, d)>> : d \in {<<>>, <<FB(100, <<"a">>)>>} }
    \cup { <<CompactionLog(1, <<FB(100, <<"a">>)>>), CompactionLog(2, <<>>)>>,
           <<CompactionLog(2, <<>>), CompactionLog(1, <<>>)>>,
           <<CompactionLog(1, <<>>), CompactionLog(UnknownID, <<>>)>>,
           <<CompactionLog(UnknownID, <<>>)>> }

CompactionCalls ==
    { CompactionCall(l, CompactionResult(CompactToID, r, d)) :
        l \in CompactionLogLists, r \in {0, MaxRows},
        d \in {<<>>, <<FB(100, <<"d">>)>>} }

FlushCallsCompact ==
    { FlushCall(1, FALSE, FALSE, FALSE, <<>>, <<>>, <<FB(100, <<"b">>)>>, <<>>, <<>>),
      FlushCall(2, FALSE, TRUE, FALSE, <<>>, <<>>, <<>>, <<>>, <<>>) }

InitCompact == newMeta(InitStores) /\ newReplica /\ NewCheckerController /\ budget = MaxCompactOps

NextCompact ==
    \/ GetCompleteCompactionMeta(CompactionCalls)
    \/ alterMetaStoreAfterCompaction
    \/ revertAlterMetaStoreAfterCompaction
    \/ alterInMemoryMetaAfterCompaction
    \/ UpdateFlushSegmentsInfo(FlushCallsCompact)
    \/ SetState({1}, {"Growing", "Dropped"})
    \/ DropSegment

SpecCompact == InitCompact /\ [][NextCompact]_vars

(* The grouping query on indexes whose segments differ in partition, channel
   and state *)

MaxQueryOps == 1

QueryInfo(id, part, ch, state) ==
    [buildSegmentInfo(1, part, id, ch) EXCEPT !.State = state, !.NumOfRows = 1]

QueryStores ==
    { [x \in {1, 2} |-> IF x = 1 THEN QueryInfo(1, p1, c1, s1)
                                 ELSE QueryInfo(2, p2, c2, s2)] :
        p1 \in PartitionIDs, p2 \in PartitionIDs, c1 \in Channels, c2 \in Channels,
        s1 \in {"Flushed", "Dropped"}, s2 \in {"Growing", "Flushed"} }

InitQuery == newMeta(QueryStores) /\ newReplica /\ NewCheckerController /\ budget = MaxQueryOps

NextQuery ==
    \/ SetState(SegIDs, {"Flushed", "Dropped"})
    \/ DropSegment

SpecQuery == InitQuery /\ [][NextQuery]_vars

(* GetCompleteCompactionMeta on indexes whose segments differ in positions and
   deltalogs *)

MaxPlanOps == 1

CompactInfo(id, startPos, dmlPos, deltalogs) ==
    [FlushedInfo(id, "ch1", 1) EXCEPT
        !.StartPosition = startPos, !.DmlPosition = dmlPos, !.Deltalogs = deltalogs]

PlanPositions == {NilPos, Pos(1, 1), Pos(MaxTs, 1)}

PlanStores ==
    { [x \in {1, 2} |-> IF x = 1 THEN CompactInfo(1, sp1, dp1, dl1)
                                 ELSE CompactInfo(2, p2, p2, dl2)] :
        sp1 \in PlanPositions, dp1 \in PlanPositions, p2 \in PlanPositions,
        dl1 \in {<<>>, <<FB(100, <<"a", "b">>)>>, <<FB(100, <<"a">>), FB(101, <<"a">>)>>},
        dl2 \in {<<>>, <<FB(100, <<"b">>)>>} }

PlanCalls ==
    { CompactionCall(l, CompactionResult(CompactToID, MaxRows, d)) :
        l \in { <<CompactionLog(1, r)>> : r \in {<<>>, <<FB(101, <<"a">>)>>} }
              \cup { <<CompactionLog(1, r), CompactionLog(2, <<>>)>> :
                        r \in {<<FB(100, <<"a">>)>>, <<FB(101, <<"a">>)>>} }
              \cup { <<CompactionLog(2, <<FB(100, <<"b">>)>>), CompactionLog(1, <<>>)>> },
        d \in {<<>>, <<FB(100, <<"d">>)>>} }

InitPlan == newMeta(PlanStores) /\ newReplica /\ NewCheckerController /\ budget = MaxPlanOps

NextPlan == GetCompleteCompactionMeta(PlanCalls)

SpecPlan == InitPlan /\ [][NextPlan]_vars

----------------------------------------------------------------------------
(* The channel-drop path with the callers that change a channel's segments *)

MaxDropOps == 3

DropCalls ==
    { DropCall(ch, l) :
        ch \in Channels,
        l \in { <<>>,
                <<Seg2Drop(1, <<FB(100, <<"b">>)>>, <<>>, NilPos, Pos(1, 1))>>,
                <<Seg2Drop(2, <<>>, <<>>, NilPos, NilPos)>>,
                <<Seg2Drop(UnknownID, <<>>, <<>>, NilPos, NilPos)>> } }

InitDrop == newMeta(InitStores) /\ newReplica /\ NewCheckerController /\ budget = MaxDropOps

NextDrop ==
    \/ UpdateDropChannelSegmentInfo(DropCalls)
    \/ AddSegment
    \/ SetState(SegIDs, {"Growing", "Dropped", "NotExist"})
    \/ Restart

SpecDrop == InitDrop /\ [][NextDrop]_vars

----------------------------------------------------------------------------

(* The segment replica of the data node (package datanode, SegmentReplica):
   the four buckets a registered segment can be in *)

ReplicaCollectionID == 1

SegmentTypes == {"New", "Normal", "Flushed", "Compacted"}

\* the four maps as one value
Buckets ==
    [new |-> newSegments, normal |-> normalSegments,
     flushed |-> flushedSegments, compacted |-> compactedSegments]

SetBuckets(b) ==
    /\ newSegments' = b.new
    /\ normalSegments' = b.normal
    /\ flushedSegments' = b.flushed
    /\ compactedSegments' = b.compacted

hasSegment(b, segID, countFlushed) ==
    LET inNew == segID \in DOMAIN b.new
        inNormal == segID \in DOMAIN b.normal
        inFlush == IF countFlushed THEN segID \in DOMAIN b.flushed ELSE FALSE
    IN inNew \/ inNormal \/ inFlush

new2NormalSegment_keep(b, segID) ==
    [b EXCEPT !.normal = Put(@, segID, [b.new[segID] EXCEPT !.isNew = FALSE])]

new2NormalSegment(b, segID) ==
    [b EXCEPT !.normal = Put(@, segID, [b.new[segID] EXCEPT !.isNew = FALSE]),
              !.new = Remove(@, segID)]

new2FlushedSegment(b, segID) ==
    [b EXCEPT !.flushed = Put(@, segID, [b.new[segID] EXCEPT !.isNew = FALSE,
                                                             !.isFlushed = TRUE]),
              !.new = Remove(@, segID)]

normal2FlushedSegment(b, segID) ==
    [b EXCEPT !.flushed = Put(@, segID, [b.normal[segID] EXCEPT !.isFlushed = TRUE]),
              !.normal = Remove(@, segID)]

(* addSegment *)

AddSegmentReq(segType, segID, collID, numOfRows, startPos, importing, statsBinLogs) ==
    [segType |-> segType, segID |-> segID, collID |-> collID,
     numOfRows |-> numOfRows, startPos |-> startPos, importing |-> importing,
     statsBinLogs |-> statsBinLogs]

\* the Segment addSegment builds from its request
addSegmentSeg(req) ==
    loadStats(
        [segmentID |-> req.segID, collectionID |-> req.collID, numRows |-> req.numOfRows,
         startPos |-> IF req.importing \/ req.segType = "New" THEN req.startPos ELSE NilPos,
         isNew |-> (req.segType = "New"), isFlushed |-> (req.segType = "Flushed"),
         compactedTo |-> 0, pkFilter |-> {}, minPK |-> NilPK, maxPK |-> NilPK,
         \* the requests carry no endPos and no cp
         endPos |-> NilPos,
         checkPoint |-> IF req.importing \/ req.segType = "New"
                        THEN [numRows |-> 0, pos |-> req.startPos]
                        ELSE [numRows |-> 0, pos |-> NilPos]],
        bloomFilterFiles(req.statsBinLogs))

\* the bucket the request's segment type names receives the segment
addSegmentBuckets(b, req) ==
    LET seg == addSegmentSeg(req) IN
    IF req.segType = "New" THEN [b EXCEPT !.new = Put(@, req.segID, seg)]
    ELSE IF req.segType = "Normal" THEN [b EXCEPT !.normal = Put(@, req.segID, seg)]
    ELSE IF req.segType = "Flushed" THEN [b EXCEPT !.flushed = Put(@, req.segID, seg)]
    ELSE b

\* what initPKBloomFilter can return: the schema fetch fails (only while no
\* schema is cached); with no stats file of the primary key a new filter is
\* sized from the schema, which can fail; with stats files the read, the
\* deserialization and the merge of the filters can fail
initPKBloomFilter(schema, statsBinLogs) ==
    (IF schema = NilSchema THEN {"schema"} ELSE {})
    \cup (IF bloomFilterFiles(statsBinLogs) = <<>>
          THEN {"nil", "estimate"}
          ELSE {"nil", "read", "deserialize", "merge"})

\* the segment is in its bucket before the filter is set up
addSegmentOutcome_registerFirst(b, req, err) == addSegmentBuckets(b, req)

\* the buckets when addSegment returns err
addSegmentOutcome(b, req, err) ==
    IF err = "nil" THEN addSegmentBuckets(b, req) ELSE b

\* verified: the caller has checked hasSegment(segID, true) = false, as the
\* function's comment asks
addSegment(reqs, verified) ==
    /\ ReplicaTick
    /\ \E req \in reqs :
        /\ verified => ~hasSegment(Buckets, req.segID, TRUE)
        /\ IF req.collID # ReplicaCollectionID
           THEN /\ SetBuckets(Buckets)
                /\ UNCHANGED <<collSchema, pkHist>>
                /\ rlast' = [op |-> "addSegment", req |-> req, err |-> "mismatch"]
           ELSE \E err \in initPKBloomFilter(collSchema, req.statsBinLogs),
                   schema \in ProviderSchemas :
                /\ SetBuckets(addSegmentOutcome(Buckets, req, err))
                /\ collSchema' = IF err # "schema" /\ collSchema = NilSchema
                                 THEN schema ELSE collSchema
                /\ pkHist' = IF err = "nil" /\ req.segType # "Compacted"
                             THEN [pkHist EXCEPT ![req.segID] =
                                      [passed |-> {},
                                       loaded |-> {addSegmentSeg(req).minPK,
                                                   addSegmentSeg(req).maxPK} \ {NilPK}]]
                             ELSE pkHist
                /\ rlast' = [op |-> "addSegment", req |-> req, err |-> err]
    /\ UNCHANGED merging

(* listNewSegmentsStartPositions *)

\* the loop over newSegments in the order the map is iterated
RECURSIVE listNewLoop(_, _)
listNewLoop(b, order) ==
    IF order = <<>> THEN b
    ELSE listNewLoop(new2NormalSegment(b, Head(order)), Tail(order))

listNewSegmentsStartPositions ==
    /\ ReplicaTick
    /\ \E order \in Perms(DOMAIN newSegments) :
        /\ SetBuckets(listNewLoop(Buckets, order))
        /\ rlast' = [op |-> "listNewSegmentsStartPositions", err |-> "nil",
                     result |-> [i \in 1..Len(order) |->
                                    [SegmentID |-> order[i],
                                     StartPosition |-> newSegments[order[i]].startPos]]]
    /\ UNCHANGED <<merging, collSchema, pkHist>>

(* segmentFlushed *)

\* a flushed segment is moved back to normal
segmentFlushedBuckets_unflush(b, segID) ==
    IF segID \in DOMAIN b.flushed
    THEN [b EXCEPT !.normal = Put(@, segID, b.flushed[segID]),
                   !.flushed = Remove(@, segID)]
    ELSE b

segmentFlushedBuckets(b, segID) ==
    LET b1 == IF segID \in DOMAIN b.new THEN new2FlushedSegment(b, segID) ELSE b
    IN IF segID \in DOMAIN b1.normal THEN normal2FlushedSegment(b1, segID) ELSE b1

segmentFlushed ==
    /\ ReplicaTick
    /\ \E segID \in SegIDs \cup {UnknownID} :
        /\ SetBuckets(segmentFlushedBuckets(Buckets, segID))
        /\ rlast' = [op |-> "segmentFlushed", segID |-> segID, err |-> "nil",
                     again |-> segID \in DOMAIN flushedSegments]
    /\ UNCHANGED <<merging, collSchema, pkHist>>

(* listCompactedSegmentIDs: compactedTo -> the ids compacted into it *)

listCompactedSegmentIDs(b) ==
    [to \in {b.compacted[id].compactedTo : id \in DOMAIN b.compacted} |->
        {id \in DOMAIN b.compacted : b.compacted[id].compactedTo = to}]

(* removeSegments *)

removeSegmentsBuckets(b, segIDs) ==
    [new |-> [x \in (DOMAIN b.new) \ segIDs |-> b.new[x]],
     normal |-> [x \in (DOMAIN b.normal) \ segIDs |-> b.normal[x]],
     flushed |-> [x \in (DOMAIN b.flushed) \ segIDs |-> b.flushed[x]],
     compacted |-> [x \in (DOMAIN b.compacted) \ segIDs |-> b.compacted[x]]]

removeSegments ==
    /\ ReplicaTick
    /\ \E segIDs \in {{1}, {1, 2}, {CompactToID}} :
        /\ SetBuckets(removeSegmentsBuckets(Buckets, segIDs))
        /\ rlast' = [op |-> "removeSegments", segIDs |-> segIDs, err |-> "nil"]
    /\ UNCHANGED <<merging, collSchema, pkHist>>

(* mergeFlushedSegments: the validation under the read lock, the move of the
   sources under the write lock, the insertion of the merged segment under
   the write lock taken again *)

MergeReq(segID, collID, numRows, compactedFrom) ==
    [seg |-> [segmentID |-> segID, collectionID |-> collID, numRows |-> numRows,
              startPos |-> NilPos, isNew |-> FALSE, isFlushed |-> FALSE,
              compactedTo |-> 0, pkFilter |-> {}, minPK |-> NilPK, maxPK |-> NilPK,
              endPos |-> NilPos, checkPoint |-> [numRows |-> 0, pos |-> NilPos]],
     compactedFrom |-> compactedFrom]

\* only the ids the replica does not have at all
RECURSIVE inValidSegments_unknownOnly(_, _)
inValidSegments_unknownOnly(b, compactedFrom) ==
    IF compactedFrom = <<>> THEN <<>>
    ELSE LET ID == Head(compactedFrom)
         IN (IF ~hasSegment(b, ID, TRUE) THEN <<ID>> ELSE <<>>)
            \o inValidSegments_unknownOnly(b, Tail(compactedFrom))

\* inValidSegments: no such segment in the replica, or it is unflushed
RECURSIVE inValidSegments(_, _)
inValidSegments(b, compactedFrom) ==
    IF compactedFrom = <<>> THEN <<>>
    ELSE LET ID == Head(compactedFrom)
         IN (IF ~hasSegment(b, ID, TRUE) \/ hasSegment(b, ID, FALSE)
             THEN <<ID>> ELSE <<>>)
            \o inValidSegments(b, Tail(compactedFrom))

mergeFlushedSegments(reqs) ==
    /\ ReplicaTick
    /\ merging.pc = "idle"
    /\ \E req \in reqs :
        IF req.seg.collectionID # ReplicaCollectionID
        THEN /\ rlast' = [op |-> "mergeFlushedSegments", req |-> req, err |-> "mismatch"]
             /\ UNCHANGED merging
        ELSE LET invalid == inValidSegments(Buckets, req.compactedFrom) IN
             IF Len(invalid) > 0
             THEN /\ rlast' = [op |-> "mergeFlushedSegments", req |-> req,
                               err |-> "invalid", invalid |-> invalid]
                  /\ UNCHANGED merging
             ELSE /\ rlast' = [op |-> "mergeFlushedSegments", req |-> req,
                               err |-> "running"]
                  /\ merging' = [pc |-> "validated", req |-> req]
    /\ SetBuckets(Buckets)
    /\ UNCHANGED <<collSchema, pkHist>>

\* the sources moved without the id of the merged segment
RECURSIVE mergeMoveLoop_noTag(_, _, _)
mergeMoveLoop_noTag(b, compactedFrom, segmentID) ==
    IF compactedFrom = <<>> THEN [b |-> b, panic |-> FALSE]
    ELSE LET ID == Head(compactedFrom) IN
         IF ID \notin DOMAIN b.flushed THEN [b |-> b, panic |-> TRUE]
         ELSE mergeMoveLoop_noTag(
                [b EXCEPT !.compacted = Put(@, ID, b.flushed[ID]),
                          !.flushed = Remove(@, ID)],
                Tail(compactedFrom), segmentID)

\* the loop over compactedFrom; s is nil when the id is not in the flushed
\* bucket, and the write to s.compactedTo panics
RECURSIVE mergeMoveLoop(_, _, _)
mergeMoveLoop(b, compactedFrom, segmentID) ==
    IF compactedFrom = <<>> THEN [b |-> b, panic |-> FALSE]
    ELSE LET ID == Head(compactedFrom) IN
         IF ID \notin DOMAIN b.flushed THEN [b |-> b, panic |-> TRUE]
         ELSE mergeMoveLoop(
                [b EXCEPT !.compacted = Put(@, ID, [b.flushed[ID] EXCEPT
                                                      !.compactedTo = segmentID]),
                          !.flushed = Remove(@, ID)],
                Tail(compactedFrom), segmentID)

\* the previous step on the replica was the preceding step of this call
mergeUninterrupted ==
    /\ rlast.op = "mergeFlushedSegments"
    /\ rlast.err = "running"
    /\ rlast.req = merging.req

mergeFlushedSegmentsMove ==
    /\ ReplicaTick
    /\ merging.pc = "validated"
    /\ UNCHANGED <<collSchema, pkHist>>
    /\ LET req == merging.req
           r == mergeMoveLoop(Buckets, req.compactedFrom, req.seg.segmentID)
       IN /\ SetBuckets(r.b)
          /\ IF r.panic
             THEN /\ merging' = IdleMerge
                  /\ rlast' = [op |-> "mergeFlushedSegments", req |-> req, err |-> "panic"]
             ELSE IF req.seg.numRows > 0
             THEN /\ merging' = [merging EXCEPT !.pc = "moved"]
                  /\ rlast' = [op |-> "mergeFlushedSegments", req |-> req,
                               err |-> "running", seq |-> mergeUninterrupted]
             ELSE /\ merging' = IdleMerge
                  /\ rlast' = [op |-> "mergeFlushedSegments", req |-> req, err |-> "nil",
                               seq |-> mergeUninterrupted]

\* only store segments with numRows > 0
mergeFlushedSegmentsInsert ==
    /\ ReplicaTick
    /\ merging.pc = "moved"
    /\ UNCHANGED <<collSchema, pkHist>>
    /\ LET req == merging.req
           seg == [req.seg EXCEPT !.isNew = FALSE, !.isFlushed = TRUE]
       IN /\ SetBuckets([Buckets EXCEPT !.flushed = Put(@, seg.segmentID, seg)])
          /\ merging' = IdleMerge
          /\ rlast' = [op |-> "mergeFlushedSegments", req |-> req, err |-> "nil",
                       seq |-> (mergeUninterrupted /\ rlast.seq)]

(* updateSegmentPKRange: the first of the new, normal and flushed buckets
   that has the id gets the batch *)

updateSegmentPKRangeBuckets(b, segID, ids) ==
    IF segID \in DOMAIN b.new
    THEN [b EXCEPT !.new[segID] = updatePKRange(@, ids)]
    ELSE IF segID \in DOMAIN b.normal
    THEN [b EXCEPT !.normal[segID] = updatePKRange(@, ids)]
    ELSE IF segID \in DOMAIN b.flushed
    THEN [b EXCEPT !.flushed[segID] = updatePKRange(@, ids)]
    ELSE b

\* the batches hold keys of the collection's primary key type, or are of a
\* type updatePKRange has no case for
updateSegmentPKRange(batches) ==
    /\ ReplicaTick
    /\ collSchema # NilSchema
    /\ \E segID \in SegIDs, ids \in batches :
        /\ ids.type \in {collSchema.pkType, "Float"}
        /\ SetBuckets(updateSegmentPKRangeBuckets(Buckets, segID, ids))
        /\ pkHist' = IF ids.type \in PkTypes /\ hasSegment(Buckets, segID, TRUE)
                     THEN [pkHist EXCEPT ![segID].passed = @ \cup SeqToSet(ids.data)]
                     ELSE pkHist
        /\ rlast' = [op |-> "updateSegmentPKRange", segID |-> segID, ids |-> ids,
                     err |-> "nil"]
    /\ UNCHANGED <<merging, collSchema>>

(* The calls made on the replica *)

MaxReplicaOps == 6

AddSegmentReqs ==
    { AddSegmentReq(t, id, ReplicaCollectionID, IF t = "New" THEN 0 ELSE 1,
                    Pos(id, 1), FALSE, <<>>) : t \in SegmentTypes, id \in SegIDs }
    \cup { AddSegmentReq("New", 1, 2, 0, Pos(1, 1), FALSE, <<>>),
           AddSegmentReq("Normal", 1, ReplicaCollectionID, 1, Pos(2, 1), TRUE, <<>>),
           AddSegmentReq("Flushed", 2, ReplicaCollectionID, 1, Pos(2, 1), FALSE,
                         <<FB(100, <<"a">>)>>) }

MergeReqs ==
    { MergeReq(CompactToID, ReplicaCollectionID, r, from) :
        r \in {0, MaxRows}, from \in {<<1>>, <<1, 2>>, <<1, 1>>, <<UnknownID>>} }
    \cup { MergeReq(CompactToID, 2, 1, <<1>>) }

InitReplica == newMeta({EmptyStore}) /\ newReplica /\ NewCheckerController /\ budget = MaxReplicaOps

NextReplica ==
    \/ addSegment(AddSegmentReqs, TRUE)
    \/ listNewSegmentsStartPositions
    \/ segmentFlushed
    \/ removeSegments
    \/ mergeFlushedSegments(MergeReqs)
    \/ mergeFlushedSegmentsMove
    \/ mergeFlushedSegmentsInsert

SpecReplica == InitReplica /\ [][NextReplica]_vars

(* The primary key ranges: segments registered with and without stats files,
   batches of keys, flushes *)

MaxPKOps == 4

PKBatches ==
    {[type |-> t, data |-> d] :
        t \in PkTypes \cup {"Float"},
        d \in {<<>>} \cup {<<k>> : k \in PKs} \cup {<<MaxPK, 0>>, <<1, 1>>}}

PKReqs ==
    { AddSegmentReq("New", 1, ReplicaCollectionID, 0, Pos(1, 1), FALSE, <<>>),
      AddSegmentReq("Normal", 2, ReplicaCollectionID, 1, Pos(2, 1), FALSE,
                    <<FB(100, <<"b">>)>>),
      AddSegmentReq("Flushed", 2, ReplicaCollectionID, 1, Pos(2, 1), FALSE,
                    <<FB(100, <<"a", "b">>)>>) }

InitPK == newMeta({EmptyStore}) /\ newReplica /\ NewCheckerController /\ budget = MaxPKOps

NextPK ==
    \/ addSegment(PKReqs, TRUE)
    \/ updateSegmentPKRange(PKBatches)
    \/ segmentFlushed

SpecPK == InitPK /\ [][NextPK]_vars

----------------------------------------------------------------------------
(* The replica's calls at the level of their lock sections: a goroutine calls
   an operation and asks for the lock, is granted it, runs the body and
   releases the lock on return *)

\* RLock returns when no writer holds the mutex and none is blocked in Lock
canRLock(mu, blockedWriters) == mu.writer = NoThread /\ blockedWriters = {}

canLock(mu) == mu.writer = NoThread /\ mu.readers = {}

SegMuOps == {"updateSegmentEndPosition", "updateSegmentCheckPoint",
             "listSegmentsCheckPoints", "updateStatistics"}

\* the lock each operation takes on segMu
segMuMode(op) ==
    IF op \in {"updateSegmentEndPosition", "listSegmentsCheckPoints"} THEN "R" ELSE "W"

\* the operations whose body assigns a field of a segment
segMuWrites(op) ==
    op \in {"updateSegmentEndPosition", "updateSegmentCheckPoint", "updateStatistics"}

SegMuCall(op, segID, endPos, numRows) ==
    [op |-> op, segID |-> segID, endPos |-> endPos, numRows |-> numRows]

updateSegmentEndPosition(b, segID, endPos) ==
    IF segID \in DOMAIN b.new THEN [b EXCEPT !.new[segID].endPos = endPos]
    ELSE IF segID \in DOMAIN b.normal THEN [b EXCEPT !.normal[segID].endPos = endPos]
    ELSE b

\* segmentCheckPoint{seg.numRows, *seg.endPos}
updateSegmentCheckPoint(b, segID) ==
    IF segID \in DOMAIN b.new
    THEN [b EXCEPT !.new[segID].checkPoint =
             [numRows |-> b.new[segID].numRows, pos |-> b.new[segID].endPos]]
    ELSE IF segID \in DOMAIN b.normal
    THEN [b EXCEPT !.normal[segID].checkPoint =
             [numRows |-> b.normal[segID].numRows, pos |-> b.normal[segID].endPos]]
    ELSE b

\* *seg.endPos of a nil endPos
updateSegmentCheckPointPanics(b, segID) ==
    IF segID \in DOMAIN b.new THEN b.new[segID].endPos.nil
    ELSE IF segID \in DOMAIN b.normal THEN b.normal[segID].endPos.nil
    ELSE FALSE

updateStatistics(b, segID, numRows) ==
    IF segID \in DOMAIN b.new THEN [b EXCEPT !.new[segID].numRows = @ + numRows]
    ELSE IF segID \in DOMAIN b.normal THEN [b EXCEPT !.normal[segID].numRows = @ + numRows]
    ELSE b

listSegmentsCheckPoints(b) ==
    [id \in (DOMAIN b.new) \cup (DOMAIN b.normal) |->
        IF id \in DOMAIN b.normal THEN b.normal[id].checkPoint ELSE b.new[id].checkPoint]

blockedWriters == {t \in Threads : threads[t].pc = "wait" /\ segMuMode(threads[t].op) = "W"}

\* a goroutine calls an operation: its first statement asks for segMu
CallSegMuOp(calls) ==
    /\ budget > 0
    /\ budget' = budget - 1
    /\ \E t \in Threads, call \in calls :
        /\ threads[t] = IdleThread
        /\ threads' = [threads EXCEPT ![t] =
                          [op |-> call.op, pc |-> "wait", call |-> call]]
    /\ UNCHANGED <<scheduler, metaVars, replicaVars, segMu, schemaMut, fetches>>

\* segMu.RLock() or segMu.Lock() returns
AcquireSegMu ==
    /\ \E t \in Threads :
        /\ threads[t].pc = "wait"
        /\ threads[t].op \in SegMuOps
        /\ IF segMuMode(threads[t].op) = "R"
           THEN /\ canRLock(segMu, blockedWriters)
                /\ segMu' = [segMu EXCEPT !.readers = @ \cup {t}]
           ELSE /\ canLock(segMu)
                /\ segMu' = [segMu EXCEPT !.writer = t]
        /\ threads' = [threads EXCEPT ![t].pc = "body"]
    /\ UNCHANGED <<scheduler, metaVars, replicaVars, schemaMut, fetches, budget>>

\* the body of the operation and the deferred unlock
ReturnSegMuOp ==
    /\ \E t \in Threads :
        /\ threads[t].pc = "body"
        /\ threads[t].op \in SegMuOps
        /\ LET call == threads[t].call IN
           IF call.op = "updateSegmentEndPosition"
           THEN /\ SetBuckets(updateSegmentEndPosition(Buckets, call.segID, call.endPos))
                /\ rlast' = [op |-> call.op, t |-> t, call |-> call, err |-> "nil"]
           ELSE IF call.op = "updateSegmentCheckPoint"
           THEN IF updateSegmentCheckPointPanics(Buckets, call.segID)
                THEN /\ SetBuckets(Buckets)
                     /\ rlast' = [op |-> call.op, t |-> t, call |-> call, err |-> "panic"]
                ELSE /\ SetBuckets(updateSegmentCheckPoint(Buckets, call.segID))
                     /\ rlast' = [op |-> call.op, t |-> t, call |-> call, err |-> "nil"]
           ELSE IF call.op = "updateStatistics"
           THEN /\ SetBuckets(updateStatistics(Buckets, call.segID, call.numRows))
                /\ rlast' = [op |-> call.op, t |-> t, call |-> call, err |-> "nil"]
           ELSE /\ SetBuckets(Buckets)
                /\ rlast' = [op |-> call.op, t |-> t, call |-> call, err |-> "nil",
                             result |-> listSegmentsCheckPoints(Buckets)]
        /\ segMu' = IF segMuMode(threads[t].op) = "R"
                    THEN [segMu EXCEPT !.readers = @ \ {t}]
                    ELSE [segMu EXCEPT !.writer = NoThread]
        /\ threads' = [threads EXCEPT ![t] = IdleThread]
    /\ UNCHANGED <<scheduler, metaVars, merging, collSchema, pkHist, schemaMut, fetches, budget>>

MaxLockOps == 3

SegMuCalls ==
    { SegMuCall("updateSegmentEndPosition", 1, Pos(ts, 1), 0) : ts \in {1, MaxTs} }
    \cup { SegMuCall("updateSegmentCheckPoint", id, NilPos, 0) : id \in SegIDs }
    \cup { SegMuCall("updateSegmentEndPosition", 2, Pos(1, 1), 0),
           SegMuCall("updateStatistics", 1, NilPos, 1),
           SegMuCall("listSegmentsCheckPoints", 0, NilPos, 0) }

\* the replica after addSegment of a New segment 1 and a Normal segment 2
InitLocks ==
    /\ newMeta({EmptyStore})
    /\ LET req1 == AddSegmentReq("New", 1, ReplicaCollectionID, 0, Pos(1, 1), FALSE, <<>>)
           req2 == AddSegmentReq("Normal", 2, ReplicaCollectionID, 1, Pos(1, 1), FALSE, <<>>)
           none == [new |-> NoSegments, normal |-> NoSegments,
                    flushed |-> NoSegments, compacted |-> NoSegments]
           b == addSegmentBuckets(addSegmentBuckets(none, req1), req2)
       IN /\ newSegments = b.new
          /\ normalSegments = b.normal
          /\ flushedSegments = b.flushed
          /\ compactedSegments = b.compacted
          /\ rlast = [op |-> "addSegment", req |-> req2, err |-> "nil"]
    /\ merging = IdleMerge
    /\ collSchema \in ProviderSchemas
    /\ pkHist = [id \in SegIDs \cup {CompactToID} |-> NoPkHist]
    /\ segMu = FreeMutex
    /\ schemaMut = FreeMutex
    /\ threads = [t \in Threads |-> IdleThread]
    /\ fetches = 0
    /\ NewCheckerController
    /\ budget = MaxLockOps

NextLocks ==
    \/ CallSegMuOp(SegMuCalls)
    \/ AcquireSegMu
    \/ ReturnSegMuOp

SpecLocks == InitLocks /\ [][NextLocks]_vars

(* getCollectionSchema: the read section, then, when no schema is cached, the
   write section with the second test and the fetch *)

\* the cache is tested again under the write lock without looking at it
needFetch_always(schema) == TRUE

\* the test of the cache under the write lock
needFetch(schema) == schema = NilSchema

\* the call: a request for another collection returns at once, the others
\* ask for schemaMut.RLock
CallGetCollectionSchema ==
    /\ budget > 0
    /\ budget' = budget - 1
    /\ \E t \in Threads, collID \in {ReplicaCollectionID, 2} :
        /\ threads[t] = IdleThread
        /\ IF collID # ReplicaCollectionID
           THEN /\ threads' = threads
                /\ rlast' = [op |-> "getCollectionSchema", t |-> t, err |-> "mismatch",
                             schema |-> NilSchema, fetched |-> FALSE]
           ELSE /\ threads' = [threads EXCEPT ![t] =
                                 [op |-> "getCollectionSchema", pc |-> "rwait"]]
                /\ rlast' = rlast
    /\ UNCHANGED <<scheduler, metaVars, newSegments, normalSegments, flushedSegments,
                   compactedSegments, merging, collSchema, pkHist, segMu, schemaMut,
                   fetches>>

schemaBlockedWriters == {t \in Threads : threads[t].pc = "wwait"}

\* schemaMut.RLock() returns
RLockSchemaMut ==
    /\ \E t \in Threads :
        /\ threads[t].pc = "rwait"
        /\ canRLock(schemaMut, schemaBlockedWriters)
        /\ schemaMut' = [schemaMut EXCEPT !.readers = @ \cup {t}]
        /\ threads' = [threads EXCEPT ![t].pc = "rheld"]
    /\ UNCHANGED <<scheduler, metaVars, replicaVars, segMu, fetches, budget>>

\* the test under the read lock: a cached schema is returned, otherwise the
\* read lock is given up and the write lock asked for
ReadCollSchema ==
    /\ \E t \in Threads :
        /\ threads[t].pc = "rheld"
        /\ schemaMut' = [schemaMut EXCEPT !.readers = @ \ {t}]
        /\ IF collSchema = NilSchema
           THEN /\ threads' = [threads EXCEPT ![t].pc = "wwait"]
                /\ rlast' = rlast
           ELSE /\ threads' = [threads EXCEPT ![t] = IdleThread]
                /\ rlast' = [op |-> "getCollectionSchema", t |-> t, err |-> "nil",
                             schema |-> collSchema, fetched |-> FALSE]
    /\ UNCHANGED <<scheduler, metaVars, newSegments, normalSegments, flushedSegments,
                   compactedSegments, merging, collSchema, pkHist, segMu, fetches, budget>>

\* schemaMut.Lock() returns
LockSchemaMut ==
    /\ \E t \in Threads :
        /\ threads[t].pc = "wwait"
        /\ canLock(schemaMut)
        /\ schemaMut' = [schemaMut EXCEPT !.writer = t]
        /\ threads' = [threads EXCEPT ![t].pc = "wheld"]
    /\ UNCHANGED <<scheduler, metaVars, replicaVars, segMu, fetches, budget>>

\* the second test and the fetch under the write lock, the deferred Unlock
FetchCollSchema ==
    /\ \E t \in Threads :
        /\ threads[t].pc = "wheld"
        /\ schemaMut' = [schemaMut EXCEPT !.writer = NoThread]
        /\ threads' = [threads EXCEPT ![t] = IdleThread]
        /\ IF needFetch(collSchema)
           THEN \E sch \in ProviderSchemas \cup {NilSchema} :
                IF sch = NilSchema
                THEN \* metaService.getCollectionSchema returned an error
                     /\ UNCHANGED <<collSchema, fetches>>
                     /\ rlast' = [op |-> "getCollectionSchema", t |-> t, err |-> "fetch",
                                  schema |-> NilSchema, fetched |-> FALSE]
                ELSE /\ collSchema' = sch
                     /\ fetches' = fetches + 1
                     /\ rlast' = [op |-> "getCollectionSchema", t |-> t, err |-> "nil",
                                  schema |-> sch, fetched |-> TRUE,
                                  retry |-> (rlast.op = "getCollectionSchema"
                                             /\ rlast.err = "fetch")]
           ELSE /\ UNCHANGED <<collSchema, fetches>>
                /\ rlast' = [op |-> "getCollectionSchema", t |-> t, err |-> "nil",
                             schema |-> collSchema, fetched |-> FALSE]
    /\ UNCHANGED <<scheduler, metaVars, newSegments, normalSegments, flushedSegments,
                   compactedSegments, merging, pkHist, segMu, budget>>

MaxSchemaOps == 5

InitSchema == newMeta({EmptyStore}) /\ newReplica /\ NewCheckerController /\ budget = MaxSchemaOps

NextSchema ==
    \/ CallGetCollectionSchema
    \/ RLockSchemaMut
    \/ ReadCollSchema
    \/ LockSchemaMut
    \/ FetchCollSchema

SpecSchema == InitSchema /\ [][NextSchema]_vars

----------------------------------------------------------------------------

----------------------------------------------------------------------------
(* The operations that use segMu and schemaMut, as the sequence of lock calls
   each makes; a goroutine runs one operation, one lock call per step *)

LockStep(kind, mu, errSkip) == [kind |-> kind, mu |-> mu, errSkip |-> errSkip]

\* the write lock asked for while the read lock is still held
getCollectionSchemaSteps_upgrade(errSkip) ==
    << LockStep("RLock", "schemaMut", 0),
       LockStep("Lock", "schemaMut", 0),
       LockStep("fetch", "schemaMut", errSkip) >>

\* getCollectionSchema: RLock; the test, which gives the read lock up and
\* either returns the cached schema or goes on to Lock; the second test and
\* the fetch with the deferred Unlock. errSkip: the lock calls the caller
\* leaves out when the fetch returns an error
getCollectionSchemaSteps(errSkip) ==
    << LockStep("RLock", "schemaMut", 0),
       LockStep("test", "schemaMut", 0),
       LockStep("Lock", "schemaMut", 0),
       LockStep("fetch", "schemaMut", errSkip) >>

\* hasSegment: RLock and the deferred RUnlock
hasSegmentSteps == << LockStep("RLock", "segMu", 0), LockStep("RUnlock", "segMu", 0) >>

\* getSegmentStatslog: RLock, getCollectionSchema, the deferred RUnlock
getSegmentStatslogSteps ==
    << LockStep("RLock", "segMu", 0) >> \o getCollectionSchemaSteps(0)
       \o << LockStep("RUnlock", "segMu", 0) >>

\* addSegment: initPKBloomFilter calls getCollectionSchema, an error returns;
\* then the registration under Lock
addSegmentSteps ==
    getCollectionSchemaSteps(2)
       \o << LockStep("Lock", "segMu", 0), LockStep("Unlock", "segMu", 0) >>

\* mergeFlushedSegments of one flushed source into a segment with rows: the
\* two hasSegment calls, the move under Lock, the insertion under Lock
mergeFlushedSegmentsSteps ==
    hasSegmentSteps \o hasSegmentSteps
       \o << LockStep("Lock", "segMu", 0), LockStep("Unlock", "segMu", 0),
             LockStep("Lock", "segMu", 0), LockStep("Unlock", "segMu", 0) >>

LockedOps == {"getSegmentStatslog", "addSegment", "mergeFlushedSegments",
              "getCollectionSchema"}

LockSteps(op) ==
    CASE op = "getSegmentStatslog" -> getSegmentStatslogSteps
      [] op = "addSegment" -> addSegmentSteps
      [] op = "mergeFlushedSegments" -> mergeFlushedSegmentsSteps
      [] op = "getCollectionSchema" -> getCollectionSchemaSteps(0)

Running(t) == threads[t].pc = "run"

\* the lock call goroutine t is at
AtStep(t) == LockSteps(threads[t].op)[threads[t].at]

Mutex(mu) == IF mu = "segMu" THEN segMu ELSE schemaMut

SetMutex(mu, v) ==
    /\ segMu' = IF mu = "segMu" THEN v ELSE segMu
    /\ schemaMut' = IF mu = "schemaMut" THEN v ELSE schemaMut

\* the goroutines blocked in Lock of mu
LockWaiters(mu) ==
    {t \in Threads : Running(t) /\ AtStep(t).kind = "Lock" /\ AtStep(t).mu = mu}

\* goroutine t goes n lock calls on, or returns
Advance(t, n) ==
    threads' = [threads EXCEPT ![t] =
                   IF threads[t].at + n > Len(LockSteps(threads[t].op))
                   THEN IdleThread
                   ELSE [threads[t] EXCEPT !.at = @ + n]]

CallLockedOp ==
    /\ budget > 0
    /\ budget' = budget - 1
    /\ \E t \in Threads, op \in LockedOps :
        /\ threads[t] = IdleThread
        /\ threads' = [threads EXCEPT ![t] = [op |-> op, pc |-> "run", at |-> 1]]
    /\ UNCHANGED <<scheduler, metaVars, replicaVars, segMu, schemaMut, fetches>>

\* RLock or Lock returns
AcquireMutex ==
    /\ \E t \in Threads :
        /\ Running(t)
        /\ LET s == AtStep(t) IN
           /\ s.kind \in {"RLock", "Lock"}
           /\ IF s.kind = "RLock"
              THEN /\ canRLock(Mutex(s.mu), LockWaiters(s.mu))
                   /\ SetMutex(s.mu, [Mutex(s.mu) EXCEPT !.readers = @ \cup {t}])
              ELSE /\ canLock(Mutex(s.mu))
                   /\ SetMutex(s.mu, [Mutex(s.mu) EXCEPT !.writer = t])
        /\ Advance(t, 1)
    /\ UNCHANGED <<scheduler, metaVars, replicaVars, fetches, budget>>

\* RUnlock or Unlock
ReleaseMutex ==
    /\ \E t \in Threads :
        /\ Running(t)
        /\ LET s == AtStep(t) IN
           /\ s.kind \in {"RUnlock", "Unlock"}
           /\ IF s.kind = "RUnlock"
              THEN SetMutex(s.mu, [Mutex(s.mu) EXCEPT !.readers = @ \ {t}])
              ELSE SetMutex(s.mu, [Mutex(s.mu) EXCEPT !.writer = NoThread])
        /\ Advance(t, 1)
    /\ UNCHANGED <<scheduler, metaVars, replicaVars, fetches, budget>>

\* the test of collSchema under the read lock: the read lock is given up, and
\* a cached schema is returned without the write section
TestCollSchema ==
    /\ \E t \in Threads :
        /\ Running(t)
        /\ AtStep(t).kind = "test"
        /\ t \in schemaMut.readers
        /\ schemaMut' = [schemaMut EXCEPT !.readers = @ \ {t}]
        /\ Advance(t, IF collSchema = NilSchema THEN 1 ELSE 3)
    /\ UNCHANGED <<scheduler, metaVars, replicaVars, segMu, fetches, budget>>

\* the second test and the fetch under the write lock, the deferred Unlock
FetchUnderLock ==
    /\ \E t \in Threads :
        /\ Running(t)
        /\ AtStep(t).kind = "fetch"
        /\ schemaMut.writer = t
        /\ schemaMut' = [schemaMut EXCEPT !.writer = NoThread]
        /\ IF needFetch(collSchema)
           THEN \E sch \in ProviderSchemas \cup {NilSchema} :
                IF sch = NilSchema
                THEN /\ UNCHANGED <<collSchema, fetches>>
                     /\ Advance(t, 1 + AtStep(t).errSkip)
                ELSE /\ collSchema' = sch
                     /\ fetches' = fetches + 1
                     /\ Advance(t, 1)
           ELSE /\ UNCHANGED <<collSchema, fetches>>
                /\ Advance(t, 1)
    /\ UNCHANGED <<scheduler, metaVars, newSegments, normalSegments, flushedSegments,
                   compactedSegments, merging, pkHist, rlast, segMu, budget>>

MaxOrderOps == 4

InitOrder == newMeta({EmptyStore}) /\ newReplica /\ NewCheckerController /\ budget = MaxOrderOps

NextOrder ==
    \/ CallLockedOp
    \/ AcquireMutex
    \/ ReleaseMutex
    \/ TestCollSchema
    \/ FetchUnderLock

SpecOrder == InitOrder /\ [][NextOrder]_vars

(* CheckerController.check: one round adds the checkers' tasks to the
   scheduler *)

checkRoundTaskNumLimit == 256

\* tasks[i] tells whether scheduler.Add(task) returns nil; added after the
\* i-th iteration of the loop
addedAfter(tasks, i) == Cardinality({j \in 1..i : tasks[j]})

\* the loop over tasks: every task is handed to scheduler.Add; the log
\* statement at the limit is followed by no break and changes nothing
checkLoop(tasks) == addedAfter(tasks, Len(tasks))

MaxCheckOps == 2

\* the number of tasks beyond the limit the checkers produce in a round
MaxExtraTasks == 2

\* a round: the number of tasks the checkers return and the tasks the
\* scheduler refuses
CheckRounds ==
    { [i \in 1..n |-> i \notin refused] :
        n \in (0..2) \cup ((checkRoundTaskNumLimit - 1)..(checkRoundTaskNumLimit + MaxExtraTasks)),
        refused \in SUBSET {1, 2, checkRoundTaskNumLimit} }

check ==
    /\ budget > 0
    /\ budget' = budget - 1
    /\ \E tasks \in CheckRounds :
        LET r == checkLoop(tasks) IN
        /\ scheduler' = scheduler + r
        /\ last' = [op |-> "check", err |-> "nil", numTasks |-> Len(tasks),
                    refused |-> {i \in 1..Len(tasks) : ~tasks[i]},
                    added |-> r, before |-> scheduler]
    /\ UNCHANGED <<segments, store, removedChannels, comp, replicaVars, lockVars>>

InitCheck == newMeta({EmptyStore}) /\ newReplica /\ NewCheckerController /\ budget = MaxCheckOps

NextCheck == check

SpecCheck == InitCheck /\ [][NextCheck]_vars

----------------------------------------------------------------------------

(* Properties *)

InSync(segs, st) ==
    \A id \in DOMAIN segs : id \in DOMAIN st /\ segs[id].info = st[id]

\* C1: when the persisted write of AddSegment, SetState or
\* UpdateFlushSegmentsInfo fails, the call returns the error and the
\* in-memory index is what it was before the call.
C1_FailedWriteLeavesIndex ==
    [][(/\ last'.op \in {"AddSegment", "SetState", "UpdateFlushSegmentsInfo"}
        /\ last'.err = "store")
       => segments' = segments]_vars

\* C2: UpdateFlushSegmentsInfo writes all touched segments in one write and
\* replaces their in-memory copies only after it succeeded: a call changes
\* nothing, or every touched segment shows its update in the store and in
\* the index.
C2_FlushAllOrNothing ==
    [][(last'.op = "UpdateFlushSegmentsInfo" /\ last'.kind = "write")
       => \/ (segments' = segments /\ store' = store)
          \/ (/\ last'.err = "nil"
              /\ \A id \in last'.touched :
                    id \in DOMAIN store' /\ segments'[id].info = store'[id])]_vars

\* C3: after SetState, AddAllocation, UpdateFlushSegmentsInfo or
\* UpdateDropChannelSegmentInfo returns, every in-memory record equals the
\* persisted one (given they were equal before the call).
C3_MemoryFollowsStore ==
    [][(/\ last'.op \in {"SetState", "AddAllocation", "UpdateFlushSegmentsInfo",
                         "UpdateDropChannelSegmentInfo"}
        /\ InSync(segments, store))
       => InSync(segments', store')]_vars

RECURSIVE PathsOfField(_, _)
PathsOfField(fbs, fid) ==
    IF fbs = <<>> THEN <<>>
    ELSE (IF Head(fbs).FieldID = fid THEN Head(fbs).Binlogs ELSE <<>>)
         \o PathsOfField(Tail(fbs), fid)

NoDuplicatePath(fbs) ==
    \A fid \in FieldIDs :
        LET ps == PathsOfField(fbs, fid)
        IN \A i, j \in 1..Len(ps) : i # j => ps[i] # ps[j]

\* C4: no log path appears twice within a field id of a segment's binlogs
\* or deltalogs, after any sequence of UpdateFlushSegmentsInfo calls.
C4_NoDuplicatePaths ==
    \A id \in DOMAIN segments :
        /\ NoDuplicatePath(segments[id].info.Binlogs)
        /\ NoDuplicatePath(segments[id].info.Deltalogs)

\* C5: the timestamp of a segment's dmlPosition never decreases across
\* UpdateFlushSegmentsInfo, UpdateDropChannelSegmentInfo and SetState.
C5_DmlTimestampMonotone ==
    [][(last'.op \in {"UpdateFlushSegmentsInfo", "UpdateDropChannelSegmentInfo",
                      "SetState"})
       => /\ \A id \in (DOMAIN segments) \cap (DOMAIN segments') :
                segments'[id].info.DmlPosition.Timestamp
                    >= segments[id].info.DmlPosition.Timestamp
          /\ \A id \in (DOMAIN store) \cap (DOMAIN store') :
                store'[id].DmlPosition.Timestamp >= store[id].DmlPosition.Timestamp]_vars

\* the checkpoints of call c for segment id, and whether all of them are
\* equal to or older than the dmlPosition stored in segs
CheckpointsFor(c, id) ==
    {i \in 1..Len(c.checkpoints) : c.checkpoints[i].SegmentID = id}

AllStale(segs, c, id) ==
    /\ CheckpointsFor(c, id) # {}
    /\ ~segs[id].info.DmlPosition.nil
    /\ \A i \in CheckpointsFor(c, id) :
          c.checkpoints[i].Position.Timestamp <= segs[id].info.DmlPosition.Timestamp

SameCallTwice ==
    /\ last.op = "UpdateFlushSegmentsInfo" /\ last'.op = "UpdateFlushSegmentsInfo"
    /\ last.err = "nil" /\ last'.err = "nil"
    /\ last.kind = "write" /\ last'.kind = "write"
    /\ last'.call = last.call

CheckpointUnchangedByRepeat ==
    SameCallTwice =>
        \A id \in DOMAIN segments :
            CheckpointsFor(last'.call, id) # {} =>
                segments'[id].info.DmlPosition = segments[id].info.DmlPosition

\* C6 as stated: a call whose checkpoints for a segment are all stale returns
\* no error for it (it fails only when the store write fails) and leaves the
\* segment's dmlPosition and numRows unchanged, and repeating the call leaves
\* the stored checkpoint as it is.
C6_StaleCheckpointNoChange ==
    [][/\ (last'.op = "UpdateFlushSegmentsInfo" /\ last'.kind = "write")
          => \A id \in DOMAIN segments :
                AllStale(segments, last'.call, id) =>
                    /\ (last'.err # "nil" => store' = store)
                    /\ segments'[id].info.DmlPosition = segments[id].info.DmlPosition
                    /\ segments'[id].info.NumOfRows = segments[id].info.NumOfRows
       /\ CheckpointUnchangedByRepeat]_vars

\* C6 amended: such a call fails only when the store write fails (and then
\* persists nothing), leaves the segment's dmlPosition unchanged, and leaves
\* its numRows unchanged unless the call has importing set and the segment
\* is the call's own, whose numRows becomes its current row count; repeating
\* the call leaves the stored checkpoint as it is.
C6_StaleCheckpointIgnored ==
    [][/\ (last'.op = "UpdateFlushSegmentsInfo" /\ last'.kind = "write")
          => \A id \in DOMAIN segments :
                AllStale(segments, last'.call, id) =>
                    /\ (last'.err # "nil" => store' = store)
                    /\ segments'[id].info.DmlPosition = segments[id].info.DmlPosition
                    /\ store'[id].DmlPosition = store[id].DmlPosition
                    /\ \/ segments'[id].info.NumOfRows = segments[id].info.NumOfRows
                       \/ /\ last'.call.importing
                          /\ id = last'.call.id
                          /\ segments'[id].info.NumOfRows = segments[id].currRows
       /\ CheckpointUnchangedByRepeat]_vars

\* a stale checkpoint was passed and ignored
C6_Witness ==
    /\ last.op = "UpdateFlushSegmentsInfo"
    /\ last.kind = "write"
    /\ last.err = "nil"
    /\ \E i \in 1..Len(last.call.checkpoints) :
          LET cp == last.call.checkpoints[i]
          IN /\ cp.SegmentID \in DOMAIN segments
             /\ segments[cp.SegmentID].info.DmlPosition.Timestamp = cp.Position.Timestamp
             /\ segments[cp.SegmentID].info.NumOfRows # cp.NumOfRows

\* the record of id in a list of segment infos (the last one written wins)
InfoOf(infos, id) ==
    infos[CHOOSE i \in 1..Len(infos) :
             /\ infos[i].ID = id
             /\ \A j \in (i + 1)..Len(infos) : infos[j].ID # id]

IDsOf(infos) == {infos[i].ID : i \in 1..Len(infos)}

ForwardTwiceSameStore ==
    (/\ last'.op = "alterMetaStoreAfterCompaction" /\ last'.err = "nil"
     /\ last.op = "alterMetaStoreAfterCompaction" /\ last.err = "nil")
    => store' = store

RevertTwiceSameStore ==
    (/\ last'.op = "revertAlterMetaStoreAfterCompaction" /\ last'.err = "nil"
     /\ last.op = "revertAlterMetaStoreAfterCompaction" /\ last.err = "nil")
    => store' = store

C8_SourcesWereFlushed ==
    comp.pc \in {"got", "done"} =>
        \A i \in 1..Len(comp.atCall) : comp.atCall[i] = "Flushed"

\* the ids of the compaction logs that were found in the index, in order
RECURSIVE FoundSourceIDs(_, _)
FoundSourceIDs(logs, found) ==
    IF logs = <<>> THEN <<>>
    ELSE (IF Head(logs).SegmentID \in found THEN <<Head(logs).SegmentID>> ELSE <<>>)
         \o FoundSourceIDs(Tail(logs), found)

\* C9: after GetCompleteCompactionMeta and alterInMemoryMetaAfterCompaction
\* every source is Dropped in the index, the new segment is in the index
\* iff it has rows, and then its compactionFrom is the source ids in order.
C9_InMemoryCommit ==
    last.op = "alterInMemoryMetaAfterCompaction" =>
        LET newID == comp.newSegment.info.ID
            found == IDsOf(comp.oldSegments)
        IN /\ \A id \in found :
                 id \in DOMAIN segments /\ segments[id].info.State = "Dropped"
           /\ (newID \in DOMAIN segments) <=> (comp.call.result.NumOfRows > 0)
           /\ newID \in DOMAIN segments =>
                 segments[newID].info.CompactionFrom
                     = FoundSourceIDs(comp.call.logs, found)

\* two sources compacted into a segment with rows
C9_Witness ==
    /\ last.op = "alterInMemoryMetaAfterCompaction"
    /\ comp.call.result.NumOfRows > 0
    /\ comp.newSegment.info.ID \in DOMAIN segments
    /\ segments[comp.newSegment.info.ID].info.CompactionFrom = <<2, 1>>

\* C10: a channel's removal marker becomes set only in a step of
\* UpdateDropChannelSegmentInfo after which every segment mutation of that
\* drop is in the store; a failed call leaves the marker unset.
C10_MarkerAfterSegments ==
    [][\A ch \in Channels :
          (ch \in removedChannels' /\ ch \notin removedChannels)
          => /\ last'.op = "UpdateDropChannelSegmentInfo"
             /\ last'.call.channel = ch
             /\ last'.err = "nil"
             /\ \A id \in DOMAIN last'.mod :
                   id \in DOMAIN store' /\ store'[id] = last'.mod[id].info
             /\ \A id \in DOMAIN segments :
                   segments[id].info.InsertChannel = ch
                   => id \in DOMAIN store' /\ store'[id].State = "Dropped"]_vars

\* a channel with segments was dropped and marked
C10_Witness ==
    /\ last.op = "UpdateDropChannelSegmentInfo"
    /\ last.err = "nil"
    /\ last.call.channel \in removedChannels
    /\ Cardinality(DOMAIN last.mod) = 2

\* C11: UpdateDropChannelSegmentInfo persists the segment mutations and the
\* channel-removal marker as one write: no call, failed or not, ends with the
\* channel's segments stored as Dropped while the channel is not marked
\* removed.
C11_DropChannelOneWrite ==
    [][(/\ last'.op = "UpdateDropChannelSegmentInfo"
        /\ DOMAIN last'.mod # {}
        /\ \A id \in DOMAIN last'.mod :
              id \in DOMAIN store' /\ store'[id].State = "Dropped")
       => last'.call.channel \in removedChannels']_vars

\* the state just before a call of UpdateDropChannelSegmentInfo returned nil
\* for the same channel
AfterDropOf(ch) ==
    /\ last.op = "UpdateDropChannelSegmentInfo"
    /\ last.err = "nil"
    /\ last.call.channel = ch

\* C12: after a successful UpdateDropChannelSegmentInfo(channel, segments)
\* every segment of the index on that channel is Dropped and the channel's
\* removal marker is set; a second call with the same channel changes no
\* segment's state.
C12_DropChannelDropsAll ==
    [][(last'.op = "UpdateDropChannelSegmentInfo" /\ last'.err = "nil")
       => /\ last'.call.channel \in removedChannels'
          /\ \A id \in DOMAIN segments' :
                segments'[id].info.InsertChannel = last'.call.channel
                => segments'[id].info.State = "Dropped"
          /\ AfterDropOf(last'.call.channel)
             => \A id \in DOMAIN segments :
                   segments'[id].info.State = segments[id].info.State]_vars

\* C13: a call of UpdateDropChannelSegmentInfo that fails on either store
\* call leaves the index as it was, and the same call made again, once the
\* store works, ends in the index one successful call would have produced.
C13_DropChannelRetry ==
    [][/\ (last'.op = "UpdateDropChannelSegmentInfo" /\ last'.err = "store")
          => segments' = segments
       /\ (/\ last.op = "UpdateDropChannelSegmentInfo"
           /\ last.err = "store"
           /\ last'.op = "UpdateDropChannelSegmentInfo"
           /\ last'.err = "nil"
           /\ last'.call = last.call)
          => /\ DOMAIN segments' = DOMAIN segments
             /\ \A id \in DOMAIN segments' :
                   segments'[id] = IF id \in DOMAIN last.mod
                                   THEN last.mod[id] ELSE segments[id]]_vars

\* a call failed on the marker after its segments were saved, and the same
\* call made again succeeded
C13_Witness ==
    /\ last.op = "UpdateDropChannelSegmentInfo"
    /\ last.err = "nil"
    /\ last.retryOf = "mark"
    /\ Cardinality(DOMAIN last.mod) = 2

\* C14: SetState on an id that is not in the index, or on a segment whose
\* state is Dropped, returns nil and changes neither the index nor the store,
\* whatever the target state is.
C14_SetStateOnDroppedIsNoOp ==
    [][(/\ last'.op = "SetState"
        /\ (last'.found => last'.oldState = "Dropped"))
       => /\ last'.err = "nil"
          /\ segments' = segments
          /\ store' = store]_vars

\* C15: after UpdateFlushSegmentsInfo returned nil, a non-empty statslogs
\* batch is all the segment has as statslogs, in the index and in the store;
\* with an empty batch the statslogs are what they were.
C15_StatslogsOverwritten ==
    [][(/\ last'.op = "UpdateFlushSegmentsInfo"
        /\ last'.kind = "write"
        /\ last'.err = "nil")
       => LET id == last'.call.id
              batch == last'.call.statslogs
          IN IF Len(batch) > 0
             THEN /\ segments'[id].info.Statslogs = batch
                  /\ store'[id].Statslogs = batch
             ELSE /\ segments'[id].info.Statslogs = segments[id].info.Statslogs
                  /\ store'[id].Statslogs = segments[id].info.Statslogs]_vars

\* a batch replaced statslogs of another path
C15_Witness ==
    /\ last.op = "UpdateFlushSegmentsInfo"
    /\ last.kind = "write"
    /\ last.err = "nil"
    /\ last.call.statslogs = <<FB(100, <<"b">>)>>
    /\ last.oldStatslogs = <<FB(100, <<"a">>)>>
    /\ segments[1].info.Statslogs = <<FB(100, <<"b">>)>>

UnhealthyStates == {"None", "NotExist", "Dropped"}

QueryIDs == SegIDs \cup {CompactToID, UnknownID}

\* the rows of the index entries of a collection and partition whose state
\* is none of the three
RECURSIVE RowsOfLive(_, _, _, _)
RowsOfLive(segs, ids, coll, parts) ==
    IF ids = {} THEN 0
    ELSE LET id == CHOOSE x \in ids : TRUE
             counts == /\ segs[id].info.State \notin UnhealthyStates
                       /\ segs[id].info.CollectionID = coll
                       /\ segs[id].info.PartitionID \in parts
         IN (IF counts THEN segs[id].info.NumOfRows ELSE 0)
            + RowsOfLive(segs, ids \ {id}, coll, parts)

\* C16: GetSegment(id) returns a segment exactly when id is in the index in
\* a state other than None, NotExist and Dropped; GetSegmentUnsafe(id)
\* returns the entry in any state; the channel, collection, partition and
\* row-count queries leave out every segment in one of the three states.
C16_QueriesFilterUnhealthy ==
    /\ \A id \in QueryIDs :
          /\ GetSegment(segments, id) # NilSegment
             <=> (id \in DOMAIN segments
                  /\ segments[id].info.State \notin UnhealthyStates)
          /\ GetSegment(segments, id) # NilSegment
             => GetSegment(segments, id) = segments[id]
          /\ GetSegmentUnsafe(segments, id) =
                IF id \in DOMAIN segments THEN segments[id] ELSE NilSegment
    /\ \A ch \in Channels : \A s \in GetSegmentsByChannel(segments, ch) :
          s.info.State \notin UnhealthyStates
    /\ \A coll \in CollectionIDs :
          /\ \A s \in GetSegmentsOfCollection(segments, coll) :
                s.info.State \notin UnhealthyStates
          /\ GetNumRowsOfCollection(segments, coll)
                = RowsOfLive(segments, DOMAIN segments, coll, PartitionIDs)
          /\ \A part \in PartitionIDs :
                /\ \A id \in GetSegmentsIDOfPartition(segments, coll, part) :
                      segments[id].info.State \notin UnhealthyStates
                /\ GetNumRowsOfPartition(segments, coll, part)
                      = RowsOfLive(segments, DOMAIN segments, coll, {part})

\* the index holds a Dropped segment with rows next to a live one, and the
\* queries show only the live one
C16_Witness ==
    /\ DOMAIN segments = {1, 2}
    /\ segments[1].info.State = "Dropped"
    /\ segments[1].info.NumOfRows = 1
    /\ segments[2].info.State = "Flushed"
    /\ GetSegment(segments, 1) = NilSegment
    /\ GetSegmentUnsafe(segments, 1) = segments[1]
    /\ GetSegmentsByChannel(segments, "ch1") = {segments[2]}
    /\ GetNumRowsOfCollection(segments, 1) = 1

\* C17: an id leaves the index only in a step of DropSegment for that id,
\* and only when the segment's state is Dropped at that moment; no other
\* catalog operation removes an entry.
C17_RemovedOnlyWhenDropped ==
    [][\A id \in DOMAIN segments :
          (last'.op # "newMeta" /\ id \notin DOMAIN segments')
          => /\ last'.op = "DropSegment"
             /\ last'.id = id
             /\ segments[id].info.State = "Dropped"]_vars

ReplicaIDs == SegIDs \cup {CompactToID, UnknownID}

BucketNames == {"new", "normal", "flushed", "compacted"}

BucketsOf(b, id) == {n \in BucketNames : id \in DOMAIN b[n]}

\* the four maps after the step
BucketsNext ==
    [new |-> newSegments', normal |-> normalSegments',
     flushed |-> flushedSegments', compacted |-> compactedSegments']

\* C18: with addSegment called only for ids for which hasSegment(id, true)
\* is false, every segment id is in at most one of the buckets new, normal,
\* flushed and compacted, in every reachable state.
C18_OneBucketPerSegment ==
    \A id \in ReplicaIDs : Cardinality(BucketsOf(Buckets, id)) <= 1

Left(id, n) == id \in DOMAIN Buckets[n] /\ id \notin DOMAIN BucketsNext[n]

Entered(id, n) == id \notin DOMAIN Buckets[n] /\ id \in DOMAIN BucketsNext[n]

\* the segment id had in bucket `from` is, after the step, the one in `to`
Moved(id, from, to) ==
    /\ Left(id, from)
    /\ id \in DOMAIN BucketsNext[to]
    /\ BucketsNext[to][id].numRows = Buckets[from][id].numRows
    /\ BucketsNext[to][id].startPos = Buckets[from][id].startPos

Registers(id) ==
    \/ rlast'.op = "addSegment" /\ rlast'.req.segID = id
    \/ rlast'.op = "mergeFlushedSegments" /\ rlast'.req.seg.segmentID = id

\* C19: a registered segment moves between buckets only from new to normal,
\* from new to flushed, from normal to flushed and from flushed to
\* compacted; a segment in the flushed bucket never goes back to new or
\* normal; segmentFlushed on a segment that is in neither new nor normal
\* changes nothing.
C19_BucketTransitions ==
    [][/\ \A id \in ReplicaIDs :
            /\ rlast'.op # "removeSegments"
               => /\ Left(id, "new")
                     => (Moved(id, "new", "normal") \/ Moved(id, "new", "flushed"))
                  /\ Left(id, "normal") => Moved(id, "normal", "flushed")
                  /\ Left(id, "flushed") => Moved(id, "flushed", "compacted")
                  /\ ~Left(id, "compacted")
            /\ Entered(id, "new") => Registers(id)
            /\ Entered(id, "normal") => (Left(id, "new") \/ Registers(id))
            /\ Entered(id, "flushed")
               => (Left(id, "new") \/ Left(id, "normal") \/ Registers(id))
            /\ Entered(id, "compacted") => Left(id, "flushed")
            /\ id \in DOMAIN flushedSegments
               => ~Entered(id, "new") /\ ~Entered(id, "normal")
       /\ (/\ rlast'.op = "segmentFlushed"
           /\ rlast'.segID \notin DOMAIN newSegments
           /\ rlast'.segID \notin DOMAIN normalSegments)
          => BucketsNext = Buckets]_vars

\* segmentFlushed was called on a segment that was already flushed
C19_Witness ==
    /\ rlast.op = "segmentFlushed"
    /\ rlast.segID \in DOMAIN flushedSegments
    /\ flushedSegments[rlast.segID].isNew = FALSE
    /\ flushedSegments[rlast.segID].isFlushed = TRUE
    /\ rlast.again

\* the entries of a result as a set
Entries(result) == {result[i] : i \in 1..Len(result)}

\* C20: listNewSegmentsStartPositions returns exactly one entry, with the
\* segment's start position, for each segment of the new bucket and moves
\* all of them to the normal bucket in the same step; called again with no
\* addSegment in between it returns an empty list and changes no bucket.
C20_ListNewMovesAll ==
    [][rlast'.op = "listNewSegmentsStartPositions"
       => /\ Len(rlast'.result) = Cardinality(DOMAIN newSegments)
          /\ Entries(rlast'.result) =
                {[SegmentID |-> id, StartPosition |-> newSegments[id].startPos] :
                    id \in DOMAIN newSegments}
          /\ newSegments' = NoSegments
          /\ DOMAIN normalSegments' = (DOMAIN normalSegments) \cup (DOMAIN newSegments)
          /\ \A id \in DOMAIN newSegments :
                normalSegments'[id] = [newSegments[id] EXCEPT !.isNew = FALSE]
          /\ \A id \in (DOMAIN normalSegments) \ (DOMAIN newSegments) :
                normalSegments'[id] = normalSegments[id]
          /\ flushedSegments' = flushedSegments
          /\ compactedSegments' = compactedSegments
          /\ rlast.op = "listNewSegmentsStartPositions"
             => (rlast'.result = <<>> /\ BucketsNext = Buckets)]_vars

\* two new segments were listed with their start positions and are normal
C20_Witness ==
    /\ rlast.op = "listNewSegmentsStartPositions"
    /\ Entries(rlast.result) =
          {[SegmentID |-> id, StartPosition |-> Pos(id, 1)] : id \in SegIDs}
    /\ DOMAIN normalSegments = SegIDs
    /\ newSegments = NoSegments

\* the step is the validation of a mergeFlushedSegments call
MergeChecked == rlast'.op = "mergeFlushedSegments" /\ merging.pc = "idle"

\* C21: mergeFlushedSegments returns an error naming exactly the offending
\* ids, and changes no bucket, whenever some id of compactedFrom is not in
\* the flushed bucket (unknown, new, normal or compacted); it also returns
\* an error and changes no bucket when seg's collection is not the
\* replica's.
C21_MergeRejectsInvalidSources ==
    [][MergeChecked
       => LET req == rlast'.req
              offending == {req.compactedFrom[i] : i \in 1..Len(req.compactedFrom)}
                              \ DOMAIN flushedSegments
          IN /\ req.seg.collectionID # ReplicaCollectionID
                => (rlast'.err = "mismatch" /\ BucketsNext = Buckets
                    /\ merging' = IdleMerge)
             /\ (req.seg.collectionID = ReplicaCollectionID /\ offending # {})
                => /\ rlast'.err = "invalid"
                   /\ Entries(rlast'.invalid) = offending
                   /\ BucketsNext = Buckets
                   /\ merging' = IdleMerge]_vars

\* a merge of a flushed and a new segment was refused, naming the new one
C21_Witness ==
    /\ rlast.op = "mergeFlushedSegments"
    /\ rlast.err = "invalid"
    /\ rlast.req.compactedFrom = <<1, 2>>
    /\ rlast.invalid = <<2>>
    /\ 1 \in DOMAIN flushedSegments
    /\ 2 \in DOMAIN newSegments

SourcesOf(req) == {req.compactedFrom[i] : i \in 1..Len(req.compactedFrom)}

\* the sources of the call are compacted into its segment and not flushed
SourcesCompacted(b, req) ==
    /\ \A id \in SourcesOf(req) :
          /\ id \in DOMAIN b.compacted
          /\ b.compacted[id].compactedTo = req.seg.segmentID
          /\ id \notin DOMAIN b.flushed
    /\ req.seg.segmentID \in DOMAIN listCompactedSegmentIDs(b)
    /\ SourcesOf(req) \subseteq listCompactedSegmentIDs(b)[req.seg.segmentID]

\* the merged segment of the call is the entry of the flushed bucket
MergedIsFlushed(b, req) ==
    /\ req.seg.segmentID \in DOMAIN b.flushed
    /\ b.flushed[req.seg.segmentID] = [req.seg EXCEPT !.isFlushed = TRUE]

\* C22: after a successful mergeFlushedSegments, run without another
\* operation between its steps, every id of compactedFrom is in the
\* compacted bucket with compactedTo the id of seg and is not in the flushed
\* bucket, seg is in the flushed bucket exactly when its row count is
\* positive, and listCompactedSegmentIDs maps the id of seg to the sources.
C22_MergeMovesSources ==
    [][(/\ rlast'.op = "mergeFlushedSegments"
        /\ merging.pc # "idle"
        /\ rlast'.err # "panic"
        /\ rlast'.seq)
       => LET req == rlast'.req
              before == listCompactedSegmentIDs(Buckets)
              earlier == IF req.seg.segmentID \in DOMAIN before
                         THEN before[req.seg.segmentID] ELSE {}
          IN /\ SourcesCompacted(BucketsNext, req)
             /\ merging.pc = "validated"
                => listCompactedSegmentIDs(BucketsNext)[req.seg.segmentID]
                      = SourcesOf(req) \cup earlier
             /\ rlast'.err = "nil"
                => (MergedIsFlushed(BucketsNext, req) <=> req.seg.numRows > 0)]_vars

\* two flushed segments were merged into a segment with rows
C22_Witness ==
    /\ rlast.op = "mergeFlushedSegments"
    /\ rlast.err = "nil"
    /\ rlast.seq
    /\ rlast.req.compactedFrom = <<1, 2>>
    /\ rlast.req.seg.numRows > 0
    /\ DOMAIN compactedSegments = {1, 2}
    /\ CompactToID \in DOMAIN flushedSegments

\* C23: whenever addSegment returns an error (collection mismatch, schema
\* fetch, blob read, stats deserialization, filter merge), no bucket of the
\* replica has changed and the segment is not registered.
C23_FailedAddSegmentRegistersNothing ==
    [][(rlast'.op = "addSegment" /\ rlast'.err # "nil")
       => /\ BucketsNext = Buckets
          /\ ~hasSegment(BucketsNext, rlast'.req.segID, TRUE)]_vars

\* every way addSegment fails has happened: here the read of the stats files
C23_Witness ==
    /\ rlast.op = "addSegment"
    /\ rlast.err = "read"
    /\ rlast.req.segType = "Flushed"
    /\ collSchema \in ProviderSchemas
    /\ 1 \in DOMAIN flushedSegments
    /\ ~hasSegment(Buckets, rlast.req.segID, TRUE)

Min(S) == CHOOSE x \in S : \A y \in S : x <= y

Max(S) == CHOOSE x \in S : \A y \in S : x >= y

\* the segment the id names in the new, normal or flushed bucket
PKSegment(id) ==
    IF id \in DOMAIN newSegments THEN newSegments[id]
    ELSE IF id \in DOMAIN normalSegments THEN normalSegments[id]
    ELSE flushedSegments[id]

\* C24 as stated: every key passed to updateSegmentPKRange is reported as
\* possibly present, and minPK and maxPK are the smallest and largest key
\* passed so far.
C24_PKRangeOfPassedKeys ==
    \A id \in SegIDs :
        (hasSegment(Buckets, id, TRUE) /\ pkHist[id].passed # {})
        => /\ \A pk \in pkHist[id].passed :
                BloomTest(PKSegment(id).pkFilter, collSchema.pkType, pk)
           /\ PKSegment(id).minPK = Min(pkHist[id].passed)
           /\ PKSegment(id).maxPK = Max(pkHist[id].passed)

\* C24 amended: every key passed to updateSegmentPKRange is reported as
\* possibly present, and minPK and maxPK are the smallest and largest of the
\* keys passed so far and the minimal and maximal keys of the stats files the
\* segment was registered with.
C24_PKRangeOfPassedAndLoadedKeys ==
    \A id \in SegIDs :
        (hasSegment(Buckets, id, TRUE) /\ pkHist[id].passed # {})
        => /\ \A pk \in pkHist[id].passed :
                BloomTest(PKSegment(id).pkFilter, collSchema.pkType, pk)
           /\ PKSegment(id).minPK = Min(pkHist[id].passed \cup pkHist[id].loaded)
           /\ PKSegment(id).maxPK = Max(pkHist[id].passed \cup pkHist[id].loaded)

\* a segment registered from a stats file whose keys are 1..MaxPK was given the
\* key 0: its minPK is the key passed, its maxPK the one of the stats file
C24_Witness ==
    /\ 2 \in DOMAIN normalSegments
    /\ pkHist[2].loaded = {1, MaxPK}
    /\ pkHist[2].passed = {0}
    /\ normalSegments[2].minPK = 0
    /\ normalSegments[2].maxPK = MaxPK
    /\ BloomTest(normalSegments[2].pkFilter, collSchema.pkType, 0)
    /\ rlast.op = "updateSegmentPKRange"


\* C25: mergeFlushedSegments is atomic with respect to the other replica
\* operations: every source that passed validation is still in the flushed
\* bucket when the move runs, and no other operation runs between the move of
\* the sources to the compacted bucket and the insertion of the non-empty
\* merged segment in the flushed bucket.
C25_MergeAtomic ==
    [][/\ (merging.pc = "validated" /\ merging'.pc # "validated")
          => \A i \in 1..Len(merging.req.compactedFrom) :
                merging.req.compactedFrom[i] \in DOMAIN flushedSegments
       /\ merging.pc = "moved" => merging'.pc = "idle"]_vars


DeltaPaths(fbs) == UNION {SeqToSet(fbs[i].Binlogs) : i \in 1..Len(fbs)}

\* the deltalog paths the compaction plan consumed
ConsumedPaths(logs) == UNION {DeltaPaths(logs[i].Deltalogs) : i \in 1..Len(logs)}

\* C26: at the in-memory commit of a compaction with a non-empty result, every
\* deltalog recorded on a source segment before the commit that the compaction
\* did not consume is among the new segment's deltalogs.
C26_DeltalogsSurviveCompaction ==
    [][(/\ last'.op = "alterInMemoryMetaAfterCompaction"
        /\ comp.newSegment.info.NumOfRows > 0)
       => \A i \in 1..Len(comp.modSegments) :
             LET id == comp.modSegments[i].info.ID IN
             id \in DOMAIN segments
             => (DeltaPaths(segments[id].info.Deltalogs) \ ConsumedPaths(comp.call.logs))
                   \subseteq DeltaPaths(segments'[comp.newSegment.info.ID].info.Deltalogs)]_vars


\* the goroutines in the body of an operation that assigns a segment's field
Writing == {t \in Threads : threads[t].pc = "body" /\ segMuWrites(threads[t].op)}

\* the goroutines in the body of an operation under the read lock
Reading == {t \in Threads : threads[t].pc = "body" /\ t \in segMu.readers}

\* C27: a goroutine that writes a segment's field holds the replica's write
\* lock, no two goroutines write at the same time, and no goroutine under the
\* read lock overlaps a write.
C27_WritesUnderWriteLock ==
    /\ \A t \in Writing : segMu.writer = t
    /\ Cardinality(Writing) <= 1
    /\ \A t \in Writing : Reading \ {t} = {}


\* C28: the schema provider is fetched successfully at most once, every
\* getCollectionSchema call that returns without error returns the schema
\* that fetch cached, a cached schema is never replaced, and a failed fetch
\* leaves the cache empty.
C28_SchemaFetchedOnce ==
    [][/\ fetches' <= 1
       /\ collSchema # NilSchema => collSchema' = collSchema
       /\ (rlast'.op = "getCollectionSchema" /\ rlast' # rlast /\ rlast'.err = "nil")
          => /\ rlast'.schema = collSchema'
             /\ rlast'.schema # NilSchema
       /\ (rlast'.op = "getCollectionSchema" /\ rlast' # rlast /\ rlast'.err = "fetch")
          => collSchema' = NilSchema]_vars

\* two goroutines found no schema under the read lock; the fetch of the first
\* failed and left the cache empty, the second then fetched and cached the
\* schema
C28_Witness ==
    /\ rlast.op = "getCollectionSchema"
    /\ rlast.err = "nil"
    /\ rlast.fetched
    /\ rlast.retry
    /\ fetches = 1
    /\ collSchema = rlast.schema
    /\ \A t \in Threads : threads[t] = IdleThread
    /\ budget = MaxSchemaOps - 2


\* the place of a state in the lifecycle order
Stage(state) ==
    CASE state = "Growing" -> 1
      [] state = "Sealed" -> 2
      [] state = "Flushing" -> 3
      [] state = "Flushed" -> 4
      [] state = "Dropped" -> 5
      [] OTHER -> 0

\* C29: no catalog operation moves a segment of the index to an earlier stage
\* of the order Growing, Sealed, Flushing, Flushed, Dropped.
C29_StateNeverMovesBack ==
    [][\A id \in (DOMAIN segments) \cap (DOMAIN segments') :
          (Stage(segments[id].info.State) > 0 /\ Stage(segments'[id].info.State) > 0)
          => Stage(segments'[id].info.State) >= Stage(segments[id].info.State)]_vars


\* C30: a compaction result segment with zero rows is never in the live
\* index, neither after alterInMemoryMetaAfterCompaction nor after a restart
\* that rebuilds the index from the store.
C30_EmptyResultNeverLive ==
    \A id \in DOMAIN segments :
        segments[id].info.CompactionFrom # <<>> => segments[id].info.NumOfRows > 0


\* the paths the compaction plan lists under a field id
PlanPaths(logs, fid) ==
    UNION {UNION {SeqToSet(logs[i].Deltalogs[j].Binlogs) :
                     j \in {k \in 1..Len(logs[i].Deltalogs) :
                              logs[i].Deltalogs[k].FieldID = fid}} :
             i \in 1..Len(logs)}

KeptPaths(entry, logs) == SeqToSet(entry.Binlogs) \ PlanPaths(logs, entry.FieldID)

\* the source deltalog entries, in source order, that keep a path
KeptEntries(olds, logs) ==
    SelectSeq(concatDeltalogs(olds), LAMBDA e : KeptPaths(e, logs) # {})

\* C31: the new segment's deltalogs are the result's deltalogs followed by,
\* for each source deltalog entry, the paths of the entry that the plan does
\* not list under the same field id; entries left with no path are omitted.
C31_NewSegmentDeltalogs ==
    (last.op = "GetCompleteCompactionMeta" /\ last.err = "nil") =>
        LET own == comp.call.result.Deltalogs
            all == comp.newSegment.info.Deltalogs
            kept == KeptEntries(comp.oldSegments, comp.call.logs)
        IN /\ Len(all) = Len(own) + Len(kept)
           /\ SubSeq(all, 1, Len(own)) = own
           /\ \A i \in 1..Len(kept) :
                 LET e == all[Len(own) + i] IN
                 /\ e.FieldID = kept[i].FieldID
                 /\ SeqToSet(e.Binlogs) = KeptPaths(kept[i], comp.call.logs)
                 /\ Len(e.Binlogs) = Cardinality(KeptPaths(kept[i], comp.call.logs))

\* the plan lists path a under field 101 only: the source's entry of field 100
\* keeps a, its entry of field 101 is omitted
C31_Witness ==
    /\ last.op = "GetCompleteCompactionMeta"
    /\ last.err = "nil"
    /\ comp.call.logs = <<CompactionLog(1, <<FB(101, <<"a">>)>>)>>
    /\ comp.call.result.Deltalogs = <<FB(100, <<"d">>)>>
    /\ comp.oldSegments[1].Deltalogs = <<FB(100, <<"a">>), FB(101, <<"a">>)>>
    /\ comp.newSegment.info.Deltalogs = <<FB(100, <<"d">>), FB(100, <<"a">>)>>

\* the positions of the sources that are not nil
PresentPositions(positions) ==
    {positions[i] : i \in {j \in 1..Len(positions) : ~positions[j].nil}}

IsEarliest(p, positions) ==
    IF PresentPositions(positions) = {} THEN p.nil
    ELSE /\ p \in PresentPositions(positions)
         /\ \A q \in PresentPositions(positions) : p.Timestamp <= q.Timestamp

\* C32: the new segment's start and dml positions are the source positions
\* with the smallest timestamp, sources with a missing position being passed
\* over.
C32_EarliestPositions ==
    (last.op = "GetCompleteCompactionMeta" /\ last.err = "nil") =>
        LET olds == comp.oldSegments IN
        /\ IsEarliest(comp.newSegment.info.StartPosition,
                      [i \in 1..Len(olds) |-> olds[i].StartPosition])
        /\ IsEarliest(comp.newSegment.info.DmlPosition,
                      [i \in 1..Len(olds) |-> olds[i].DmlPosition])

\* the first source has the later start position, the second has no dml
\* position
C32_Witness ==
    /\ last.op = "GetCompleteCompactionMeta"
    /\ last.err = "nil"
    /\ Len(comp.oldSegments) = 2
    /\ comp.oldSegments[1].StartPosition = Pos(MaxTs, 1)
    /\ comp.oldSegments[2].StartPosition = Pos(1, 1)
    /\ comp.oldSegments[1].DmlPosition = Pos(MaxTs, 1)
    /\ comp.oldSegments[2].DmlPosition = NilPos
    /\ comp.newSegment.info.StartPosition = Pos(1, 1)
    /\ comp.newSegment.info.DmlPosition = Pos(MaxTs, 1)


\* C33: UpdateFlushSegmentsInfo for a segment id that is unknown or unhealthy
\* returns nil and changes neither the index nor the store, whatever the
\* flushed, dropped and importing flags are.
C33_FlushOfMissingSegmentIsNoOp ==
    [][(/\ last'.op = "UpdateFlushSegmentsInfo"
        /\ last' # last
        /\ \/ ~HasSegment(segments, last'.call.id)
           \/ ~isSegmentHealthy(segments[last'.call.id]))
       => /\ last'.err = "nil"
          /\ segments' = segments
          /\ store' = store]_vars


\* the grouping half of C34 for one result: each returned segment is in
\* exactly one group, the segments of a group have the group's partition id
\* and channel, and no two groups have the same (partition id, channel) pair
WellGrouped(result) ==
    /\ \A g \in result : g.segments # {}
    /\ \A g \in result, h \in result : g # h => g.segments \cap h.segments = {}
    /\ \A g \in result : \A s \in g.segments :
          /\ s.info.PartitionID = g.partitionID
          /\ s.info.InsertChannel = g.channelName
    /\ \A g \in result, h \in result :
          (g.partitionID = h.partitionID /\ g.channelName = h.channelName) => g = h

\* C34 as stated: GetSegmentsChanPart returns only healthy segments, grouped
\* by (partition id, channel).
C34_ChanPartHealthyOnly ==
    \A name \in SegmentSelectors : \A result \in GetSegmentsChanPart(segments, name) :
        /\ \A g \in result : \A s \in g.segments : isSegmentHealthy(s)
        /\ WellGrouped(result)

\* C34 amended: GetSegmentsChanPart returns exactly the segments of the index
\* that its selector accepts, healthy or not, grouped by (partition id,
\* channel).
C34_ChanPartSelected ==
    \A name \in SegmentSelectors : \A result \in GetSegmentsChanPart(segments, name) :
        /\ UNION {g.segments : g \in result}
              = {s \in GetSegments(segments) : selector(name, s)}
        /\ WellGrouped(result)

\* two segments of one channel in different partitions, one of them Dropped:
\* the selector that accepts everything gives two groups
C34_Witness ==
    /\ DOMAIN segments = {1, 2}
    /\ segments[1].info.State = "Dropped"
    /\ segments[2].info.State = "Flushed"
    /\ segments[1].info.InsertChannel = segments[2].info.InsertChannel
    /\ segments[1].info.PartitionID # segments[2].info.PartitionID
    /\ \A result \in GetSegmentsChanPart(segments, "all") : Cardinality(result) = 2
    /\ \A result \in GetSegmentsChanPart(segments, "healthy") : Cardinality(result) = 1
    /\ last.op = "SetState"


\* C35: UpdateDropChannelSegmentInfo(channel, segments) changes no segment
\* whose insert channel differs from channel, whatever ids are listed.
C35_DropChannelFrame ==
    [][(last'.op = "UpdateDropChannelSegmentInfo" /\ last' # last)
       => \A id \in DOMAIN segments :
             segments[id].info.InsertChannel # last'.call.channel
             => /\ id \in DOMAIN segments'
                /\ segments'[id] = segments[id]
                /\ (id \in DOMAIN store /\ id \in DOMAIN store'
                       => store'[id] = store[id])]_vars


\* C36: GetCompleteCompactionMeta completes and returns a result for every
\* list of compaction logs, also when none of the listed ids is known, and
\* changes neither the index nor the store.
C36_PlanCompletesForEveryList ==
    [][(last'.op = "GetCompleteCompactionMeta" /\ last' # last)
       => /\ last'.err = "nil"
          /\ segments' = segments
          /\ store' = store]_vars


\* C37: every segment that a catalog operation moves to state Dropped has a
\* non-zero droppedAt afterwards, whichever operation did it.
C37_DroppedHasDroppedAt ==
    [][(last'.op # "newMeta")
       => \A id \in DOMAIN segments' :
             (/\ segments'[id].info.State = "Dropped"
              /\ id \in DOMAIN segments
              /\ segments[id].info.State # "Dropped")
             => segments'[id].info.DroppedAt # 0]_vars


\* C38: whenever addSegment returns success, the segment id is afterwards a
\* member of exactly one of the new, normal and flushed buckets, the one named
\* by the request's segment type, for every value the segment type can take.
C38_AddSegmentRegisters ==
    (rlast.op = "addSegment" /\ rlast.err = "nil")
    => LET id == rlast.req.segID
           inNew == id \in DOMAIN newSegments
           inNormal == id \in DOMAIN normalSegments
           inFlushed == id \in DOMAIN flushedSegments
       IN /\ rlast.req.segType \in SegmentTypes
          /\ inNew <=> rlast.req.segType = "New"
          /\ inNormal <=> rlast.req.segType = "Normal"
          /\ inFlushed <=> rlast.req.segType = "Flushed"
          /\ inNew \/ inNormal \/ inFlushed


Holds(t, mu) == t \in Mutex(mu).readers \/ Mutex(mu).writer = t

\* the lock call goroutine t is at can return in this state
CanStep(t) ==
    CASE AtStep(t).kind = "RLock" ->
             canRLock(Mutex(AtStep(t).mu), LockWaiters(AtStep(t).mu))
      [] AtStep(t).kind = "Lock" -> canLock(Mutex(AtStep(t).mu))
      [] OTHER -> TRUE

\* C39: no interleaving of segment replica operations deadlocks: while some
\* goroutine is inside an operation one of them can go on; a goroutine that
\* asks for the segment lock holds neither the segment lock nor the schema
\* lock, so the segment lock is never re-acquired and, where both are held,
\* it was taken first.
C39_NoDeadlock ==
    /\ (\E t \in Threads : Running(t)) => (\E t \in Threads : Running(t) /\ CanStep(t))
    /\ \A t \in Threads :
          (Running(t) /\ AtStep(t).kind \in {"RLock", "Lock"} /\ AtStep(t).mu = "segMu")
          => (~Holds(t, "segMu") /\ ~Holds(t, "schemaMut"))
    /\ \A t \in Threads : ~Running(t) => (~Holds(t, "segMu") /\ ~Holds(t, "schemaMut"))

\* getSegmentStatslog holds the segment lock for reading and the schema lock
\* for writing while another goroutine waits in Lock of the segment lock
C39_Witness ==
    \E t \in Threads, u \in Threads :
        /\ Running(t) /\ threads[t].op = "getSegmentStatslog"
        /\ t \in segMu.readers
        /\ schemaMut.writer = t
        /\ Running(u) /\ u \in LockWaiters("segMu")


\* C40: in one check round CheckerController.check adds at most
\* checkRoundTaskNumLimit tasks to the scheduler: the tasks that remain once
\* that many were added are not added.
C40_RoundAddsAtMostLimit ==
    last.op = "check"
    => /\ last.added <= checkRoundTaskNumLimit
       /\ scheduler - last.before <= checkRoundTaskNumLimit

====
